---- MODULE Spec2Model ----
(***************************************************************************)
(* Teachable Machine simulator extension: the model registry               *)
(* (ModelManager), the control capability of a model component             *)
(* (ImageModel / PoseModel: handleStart, handleStop, animationLoop,        *)
(* predict, the unmount cleanup) and the capture device it owns.           *)
(*                                                                         *)
(* The page is single threaded: every action below is one task (a call     *)
(* from outside, a promise continuation, an animation frame, a render of   *)
(* React).  The suspension points of the code (await start, await setup,   *)
(* await play, await predict) and the renders React schedules are the      *)
(* boundaries between actions.                                             *)
(***************************************************************************)
EXTENDS Integers, Sequences, FiniteSets, TLC

\* ------------------------------------------------------------------ bounds
\* Start coroutines plus loop chains one component may have at once.
MaxTasks == 2
\* startModel calls that may be suspended in the start() of a mock
\* capability at once.
MaxAwaits == 1
\* Capture devices the environment can hand to one component at once.
MaxDevices == 2

\* ------------------------------------------------------------ the universe
Comps == {"c1"}                  \* model components (ImageModel / PoseModel)
Mocks == {"k1", "k2"}            \* other implementations of ModelControls
Ids == {"m1", "m2"}              \* model ids
LabelNames == <<"A", "B">>       \* model._metadata.labels of the loaded model
\* Results of model.predict: probabilities in 1/10000, per label index; the
\* second result is shorter than the label list.
Preds == {<<6667, 3333>>, <<3333>>}

ItemId(c) == "m1"
Urls == {"u1"}                   \* model urls handed to loadModel
Listeners == {"l1", "l2"}        \* functions handed to subscribe

VARIABLES
    models,     \* ModelManager.models: the Map, as its entries in insertion order
    inst,       \* per component: refs and pending tasks
    mock,       \* per mock capability: its flags
    deleteCb,   \* ModelManager.modelDeleteCallback is installed
    reply,      \* the last facade call that returned, and what it did
    phaseLog,   \* per component: what was last asked of it (observer)
    listeners,  \* ModelManager.listeners: the Set, in insertion order
    notes,      \* the listener calls of the last registerModel / unregisterModel
    loadCb,     \* ModelManager.modelLoadCallback is installed
    simx,       \* the bridge endpoint of the simulator extension
    codex,      \* the bridge endpoint of the code extension
    wire,       \* the host between them: the frames posted and not yet delivered
    named       \* the ModelItem last loaded: its url and its modelName

vars == <<models, inst, mock, deleteCb, reply, phaseLog,
          listeners, notes, loadCb, simx, codex, wire, named>>

subs == <<listeners, notes>>
bridge == <<simx, codex, wire>>

\* ------------------------------------------------------------- components
NewInst ==
    [ phase       |-> "new",     \* "new" | "mounted" | "gone"
      registers   |-> FALSE,     \* the component carries the Model Registration effect
      modelLoaded |-> FALSE,     \* the state modelLoaded, as of the last render
      wasLoaded   |-> FALSE,     \* a render with modelLoaded true has taken place: its
                                 \* handleStart is in the controls that render made
      setLoaded   |-> "none",    \* setModelLoaded call not yet rendered: "none" | "true" | "false"
      running     |-> FALSE,     \* the state running, as of the last render
      setRun      |-> "none",    \* setRunning call not yet rendered: "none" | "true" | "false"
      labels      |-> <<>>,      \* the state labels, as of the last render or as computed at the call
      queue       |-> <<>>,      \* setLabels calls React has not run yet
      pending     |-> FALSE,     \* a state already computed awaits its render: labels computed at
                                 \* the call, availableCameras, selectedCameraId, flipCamera
      dirty       |-> FALSE,     \* the render before applied an update: the fiber it replaced
                                 \* still carries the mark of that update
      bound       |-> TRUE,      \* the fiber the state setters were bound to at the first render
                                 \* is the current one (the two fibers alternate render by render)
      loading     |-> FALSE,     \* tmImage.load promise pending
      model       |-> FALSE,     \* imageModelRef.current !== null
      failed      |-> FALSE,     \* the last settled load ran the .catch branch
      kind        |-> "none",    \* the component function: "image" | "pose"
      labelsRef   |-> <<>>,      \* labelsRef.current; confidences in 1/1000
      runningRef  |-> FALSE,
      webcamRef   |-> "none",    \* "none" | "setup" | "ready" | "failed"
      orphanSetup |-> 0,         \* starts awaiting setup of a webcam no longer in webcamRef
      plays       |-> 0,         \* starts awaiting play()
      curCall     |-> FALSE,     \* a startModel call awaits the start setting up webcamRef
      orphanCalls |-> 0,         \* the starts of orphanSetup a startModel call awaits
      playCalls   |-> 0,         \* the starts of plays a startModel call awaits
      leaked      |-> 0,         \* webcams holding a device, no longer in webcamRef
      afr         |-> "null",    \* animationFrameRef: "null" | "pending" | "stale"
      rafOrphan   |-> 0,         \* scheduled animationLoop callbacks not in animationFrameRef
      inflight    |-> 0,         \* animationLoop runs awaiting predict()
      \* the last batch sent.  src: "stop" for handleStop, and for
      \* animationLoop how its predict() ended: "updated" | "failed" |
      \* "skipped"
      lastBatch   |-> [src |-> "none", conf |-> <<>>, kind |-> "none"] ]

\* labelsArray of the load effect: the labels of the model, at confidence 0.
LabelsArray == [i \in 1..Len(LabelNames) |-> [name |-> LabelNames[i], confidence |-> 0]]

\* Number(p.toFixed(3)), on probabilities in 1/10000 (no ties in Preds).
Round3(p) == (p + 5) \div 10

\* An updater that lists the labels in the opposite order.
UpdatedLabels_Reordered(prev, prediction) ==
    [i \in 1..Len(prev) |->
        [prev[Len(prev) + 1 - i] EXCEPT !.confidence =
            IF i <= Len(prediction) THEN Round3(prediction[i]) ELSE 0]]

\* The setLabels updater of predict: prevLabels.map((label, index) => ...).
UpdatedLabels(prev, prediction) ==
    [i \in 1..Len(prev) |->
        [prev[i] EXCEPT !.confidence =
            IF i <= Len(prediction) THEN Round3(prediction[i]) ELSE 0]]

\* The setLabels updater of handleStop.
ClearedLabels(prev) == [i \in 1..Len(prev) |-> [prev[i] EXCEPT !.confidence = 0]]

\* An update of the component awaits its next render.
UpdateQueued(r) ==
    r.queue # <<>> \/ r.setLoaded # "none" \/ r.setRun # "none" \/ r.pending

\* No fiber of the component carries the mark of an update: React computes
\* the next state at the call of a setter (running its updater), and drops
\* the call when the state it computes is the state of the last render.
NoLanes(r) == ~UpdateQueued(r) /\ ~r.dirty

\* setRunning(v)
SetRunning(r, v) ==
    IF NoLanes(r) /\ r.running = v
    THEN r
    ELSE [r EXCEPT !.setRun = IF v THEN "true" ELSE "false"]

\* setModelLoaded(v)
SetModelLoaded(r, v) ==
    IF NoLanes(r) /\ r.modelLoaded = v
    THEN r
    ELSE [r EXCEPT !.setLoaded = IF v THEN "true" ELSE "false"]

\* The value setLabels(labelsArray) of the load effect sets.
SetValue == [u |-> "set", p |-> <<>>]

\* The queue of setLabels calls with one more.  An updater maps over the
\* previous labels and keeps their names, so the labels after it depend on
\* the names before it alone: the updaters queued before it are dropped, a
\* value set before it is kept.
Enqueue(q, u) ==
    IF u.u = "set"
    THEN IF q # <<>> /\ q[Len(q)].u = "set" THEN q ELSE Append(q, u)
    ELSE (IF \E i \in 1..Len(q) : q[i].u = "set" THEN <<SetValue>> ELSE <<>>) \o <<u>>

\* What a queued setLabels call makes of the labels.
Apply(prev, u) ==
    CASE u.u = "clear" -> ClearedLabels(prev)
      [] u.u = "update" -> UpdatedLabels(prev, u.p)
      [] OTHER -> LabelsArray

\* React runs one setLabels call: an updater also assigns labelsRef.current.
RunUpdater(r, u) ==
    IF u.u = "set"
    THEN [r EXCEPT !.labels = Apply(r.labels, u)]
    ELSE [r EXCEPT !.labels = Apply(r.labels, u), !.labelsRef = Apply(r.labels, u)]

\* setLabels behind another update: it waits for the next render, which an
\* unmounted component never has.
QueueLabels(r, u) ==
    IF r.phase = "mounted" THEN [r EXCEPT !.queue = Enqueue(@, u)] ELSE r

\* setLabels: React runs it at the call when no fiber of the component
\* carries the mark of an update, and the labels it computed (a new array,
\* never the state of the last render) await their render; otherwise the
\* call waits for the next render.
SetLabels(r, u) ==
    IF NoLanes(r)
    THEN [RunUpdater(r, u) EXCEPT !.pending = TRUE]
    ELSE QueueLabels(r, u)

\* The queued setLabels calls, run in order by a render.
RECURSIVE RunQueue(_, _)
RunQueue(r, i) ==
    IF i > Len(r.queue)
    THEN [r EXCEPT !.queue = <<>>]
    ELSE RunQueue(RunUpdater(r, r.queue[i]), i + 1)

Starts(r) == (IF r.webcamRef = "setup" THEN 1 ELSE 0) + r.orphanSetup + r.plays
Loops(r) == (IF r.afr = "pending" THEN 1 ELSE 0) + r.rafOrphan + r.inflight
Held(r) == (IF r.webcamRef = "ready" THEN 1 ELSE 0) + r.leaked

\* A sendPredictions that always says "image".
SendPredictions_AlwaysImage(r, src) ==
    [r EXCEPT !.lastBatch = [src |-> src, conf |-> r.labelsRef, kind |-> "image"]]

\* sendPredictions("image" | "pose", labelsRef.current): the kind is the
\* literal in the component function.
SendPredictions(r, src) ==
    [r EXCEPT !.lastBatch = [src |-> src, conf |-> r.labelsRef, kind |-> r.kind]]

\* requestAnimationFrame(animationLoop), stored in animationFrameRef.current
Schedule(r) ==
    [r EXCEPT !.rafOrphan = @ + (IF r.afr = "pending" THEN 1 ELSE 0),
              !.afr = "pending"]

\* if (animationFrameRef.current) { cancelAnimationFrame(...); ... = null }
CancelFrame(r) == [r EXCEPT !.afr = "null"]

\* The start setting up webcamRef goes on without it when webcamRef is
\* replaced or cleared: it is one of orphanSetup from then on.
Orphaned(r) ==
    [r EXCEPT !.orphanSetup = @ + (IF r.webcamRef = "setup" THEN 1 ELSE 0),
              !.orphanCalls = @ + (IF r.webcamRef = "setup" /\ r.curCall THEN 1 ELSE 0),
              !.curCall = FALSE]

\* try { webcamRef.current?.stop() } catch {} ; webcamRef.current = null
\* stop() releases the device of a webcam that finished setup; one still in
\* setup has none yet, and acquires it when its setup completes.
ReleaseWebcam(r) == [Orphaned(r) EXCEPT !.webcamRef = "none"]

\* The catch block of handleStart: setRunning(false); runningRef.current =
\* false.
StartCatch(r) == [SetRunning(r, FALSE) EXCEPT !.runningRef = FALSE]

\* A handleStart that has not set runningRef.current when it suspends in
\* setup.
HandleStart_FlagAfterSetup(r, loaded) ==
    IF loaded /\ r.phase = "mounted"
    THEN [Orphaned(SetRunning(r, TRUE))
             EXCEPT !.leaked = @ + (IF r.webcamRef = "ready" THEN 1 ELSE 0),
                    !.webcamRef = "setup"]
    ELSE r

\* handleStart up to 'await webcamRef.current.setup(constraints)':
\* if (modelLoaded && canvasContainerRef.current), loaded being the
\* modelLoaded of the render the called function is of; setRunning(true);
\* runningRef.current = true; a new webcam replaces the one in webcamRef.
HandleStart(r, loaded) ==
    IF loaded /\ r.phase = "mounted"
    THEN [Orphaned(SetRunning(r, TRUE))
             EXCEPT !.runningRef = TRUE,
                    !.leaked = @ + (IF r.webcamRef = "ready" THEN 1 ELSE 0),
                    !.webcamRef = "setup"]
    ELSE r

\* A handleStart that goes on to play() whatever became of the container
\* and of webcamRef while it was suspended.
AfterSetup_GoesOn(r) == [r EXCEPT !.plays = @ + 1]

\* handleStart from the end of setup to 'await webcamRef.current.play()':
\* it reads canvasContainerRef.current and webcamRef.current as they are now.
AfterSetup(r) ==
    IF r.phase = "mounted" /\ r.webcamRef = "ready"
    THEN [r EXCEPT !.plays = @ + 1]
    ELSE StartCatch(r)

\* handleStart after play(): the loop is scheduled.
AfterPlay(r) == Schedule(r)

\* handleStop: setRunning(false); runningRef.current = false; the frame is
\* cancelled and the webcam released; setLabels(updater), whose updater
\* clears labelsRef.current when React runs it: at the call, or at the next
\* render when setRunning(false) or an earlier call left an update behind;
\* the batch carries labelsRef.current as it is then.
HandleStop(r) ==
    LET a == CancelFrame([SetRunning(r, FALSE) EXCEPT !.runningRef = FALSE])
        b == ReleaseWebcam(a)
        c == SetLabels(b, [u |-> "clear", p |-> <<>>])
    IN  SendPredictions(c, "stop")

\* The cleanup of the unmount effect.
UnmountCleanup(r) ==
    IF r.runningRef
    THEN ReleaseWebcam(CancelFrame([r EXCEPT !.runningRef = FALSE]))
    ELSE r

\* The guard of predict.
CanPredict(r) == r.webcamRef = "ready" /\ r.model

\* animationLoop after 'await predict()'.
AfterPredict(r, how) == Schedule(SendPredictions(r, how))

\* An animationLoop that does not look at runningRef.
AnimationLoop_NoFlagCheck(r) ==
    IF CanPredict(r)
    THEN [r EXCEPT !.inflight = @ + 1]
    ELSE AfterPredict(r, "skipped")

\* animationLoop up to 'await predict()'; a predict whose guard fails
\* returns at once.
AnimationLoop(r) ==
    IF r.runningRef
    THEN IF CanPredict(r)
         THEN [r EXCEPT !.inflight = @ + 1]
         ELSE AfterPredict(r, "skipped")
    ELSE r

\* --------------------------------------------------- ModelControls, the Map
\* controls.isRunning(): () => runningRef.current
IsRunning(x) == IF x \in Comps THEN inst[x].runningRef ELSE mock[x].running

\* controls.isLoaded(): () => modelLoaded && modelRef.current !== null
\* (controls are built in a render where modelLoaded is true)
IsLoaded(x) == IF x \in Comps THEN inst[x].model ELSE mock[x].loaded

\* models.get(id): the position of the entry, 0 when absent
Lookup(id) ==
    IF \E i \in 1..Len(models) : models[i].id = id
    THEN CHOOSE i \in 1..Len(models) : models[i].id = id
    ELSE 0

Registered == {models[i].id : i \in 1..Len(models)}

\* Map.set: an existing key keeps its place, a new key goes last.
MapSet(ms, id, x) ==
    IF \E i \in 1..Len(ms) : ms[i].id = id
    THEN [i \in 1..Len(ms) |-> IF ms[i].id = id THEN [id |-> id, ctl |-> x] ELSE ms[i]]
    ELSE Append(ms, [id |-> id, ctl |-> x])

\* Map.delete
MapDelete(ms, id) == SelectSeq(ms, LAMBDA e : e.id # id)

\* What a facade call reports. done: the call has returned or settled;
\* raised: it threw to its caller; starts / stops: the controls whose
\* start() / stop() it invoked, in order; threw: the controls whose stop()
\* threw; intent: the delete-request callback was invoked; outcome: how the
\* handleStart it awaited ended.
Reply(op, id, done, ret) ==
    [ op |-> op, id |-> id, done |-> done, ret |-> ret, raised |-> FALSE,
      starts |-> <<>>, stops |-> <<>>, threw |-> {}, intent |-> FALSE,
      outcome |-> "none", list |-> <<>> ]

\* The promise of handleStart: its catch block swallows every failure.
HandleStartSettles(outcome) == "resolved"

\* startModel: try { await model.controls.start(); return true } catch { return false }
StartModelResult(settled) == settled = "resolved"

\* A start coroutine of component c ended with `outcome`: the startModel
\* call awaiting it returns.
StartSettled(c, outcome) ==
    [Reply("startModel", ItemId(c), TRUE,
           StartModelResult(HandleStartSettles(outcome)))
        EXCEPT !.outcome = outcome]

\* The observer of what was last asked of component c.
LogStartCall(c) ==
    [phaseLog EXCEPT ![c] = IF @ \in {"start1", "start2"} THEN "start2" ELSE "start1"]
LogStop(c) == [phaseLog EXCEPT ![c] = "stopped"]
LogOther(S) ==
    [c \in Comps |-> IF c \in S /\ phaseLog[c] # "stopped" THEN "idle" ELSE phaseLog[c]]

\* ------------------------------------------------------------ ModelManager
\* startModel without its isRunning() check.
StartDecision_NoRunningCheck(found, loaded, running) ==
    IF ~found THEN "notFound"
    ELSE IF ~loaded THEN "notLoaded"
    ELSE "start"

\* startModel without its isLoaded() check.
StartDecision_NoLoadedCheck(found, loaded, running) ==
    IF ~found THEN "notFound"
    ELSE IF running THEN "alreadyRunning"
    ELSE "start"

\* The checks of startModel before it calls controls.start().
StartDecision(found, loaded, running) ==
    IF ~found THEN "notFound"
    ELSE IF ~loaded THEN "notLoaded"
    ELSE IF running THEN "alreadyRunning"
    ELSE "start"

\* The startModel calls suspended in the start() of the capabilities in S.
RECURSIVE Awaiting(_)
Awaiting(S) ==
    IF S = {}
    THEN 0
    ELSE LET k == CHOOSE k \in S : TRUE IN Len(mock[k].awaited) + Awaiting(S \ {k})

\* startModel, up to 'await model.controls.start()': the call suspends there
\* whatever start() returned, and awaits the handleStart it made (curCall).
\* A mock's start() either sets it running and resolves, or rejects.
StartModel(id) ==
    LET i == Lookup(id)
        x == models[i].ctl
        d == StartDecision(i # 0, i # 0 /\ IsLoaded(x), i # 0 /\ IsRunning(x)) IN
    /\ UNCHANGED <<models, deleteCb, subs, loadCb, bridge, named>>
    /\ CASE d \in {"notFound", "notLoaded"} ->
              /\ reply' = Reply("startModel", id, TRUE, FALSE)
              /\ UNCHANGED <<inst, mock, phaseLog>>
         [] d = "alreadyRunning" ->
              /\ reply' = Reply("startModel", id, TRUE, TRUE)
              /\ phaseLog' = IF x \in Comps THEN LogStartCall(x) ELSE phaseLog
              /\ UNCHANGED <<inst, mock>>
         [] d = "start" /\ x \in Comps ->
              /\ Starts(inst[x]) + Loops(inst[x]) < MaxTasks
              /\ inst' = [inst EXCEPT ![x] = [HandleStart(@, TRUE) EXCEPT !.curCall = TRUE]]
              /\ reply' = [Reply("startModel", id, FALSE, FALSE) EXCEPT !.starts = <<x>>]
              /\ phaseLog' = LogStartCall(x)
              /\ UNCHANGED mock
         [] d = "start" /\ x \in Mocks ->
              \E o \in {"resolved", "rejected"} :
                 /\ Awaiting(Mocks) < MaxAwaits
                 /\ mock' = [mock EXCEPT ![x].running = (o = "resolved"),
                                         ![x].awaited = Append(@, [id |-> id, settled |-> o])]
                 /\ reply' = [Reply("startModel", id, FALSE, FALSE) EXCEPT !.starts = <<x>>]
                 /\ UNCHANGED <<inst, phaseLog>>

\* startModel after 'await model.controls.start()' on a mock capability:
\* return true, or false from the catch block.  The calls awaiting one
\* capability resume in the order they were made.
StartModelResumes(k) ==
    /\ mock[k].awaited # <<>>
    /\ reply' = [Reply("startModel", Head(mock[k].awaited).id, TRUE,
                       StartModelResult(Head(mock[k].awaited).settled))
                    EXCEPT !.starts = <<k>>]
    /\ mock' = [mock EXCEPT ![k].awaited = Tail(@)]
    /\ UNCHANGED <<models, inst, deleteCb, phaseLog, subs, loadCb, bridge, named>>

\* A stop() that stops every mock capability, not x alone.
StopOk_All(w, x) ==
    IF x \in Comps
    THEN [w EXCEPT !.inst[x] = HandleStop(@), !.stops = Append(@, x)]
    ELSE [w EXCEPT !.mock = [k \in Mocks |-> [@[k] EXCEPT !.running = FALSE]],
                   !.inst = [c \in Comps |-> HandleStop(@[c])],
                   !.stops = Append(@, x)]

\* controls.stop() on x, returning normally: handleStop for a component.
StopOk(w, x) ==
    IF x \in Comps
    THEN [w EXCEPT !.inst[x] = HandleStop(@), !.stops = Append(@, x)]
    ELSE [w EXCEPT !.mock[x].running = FALSE, !.stops = Append(@, x)]

\* controls.stop() on x, throwing (handleStop has no throwing path).
StopThrow(w, x) == [w EXCEPT !.stops = Append(@, x), !.threw = @ \cup {x}]

World == [inst |-> inst, mock |-> mock, stops |-> <<>>, threw |-> {}]

WRunning(w, x) == IF x \in Comps THEN w.inst[x].runningRef ELSE w.mock[x].running

\* What stop() may do on x: a component's handleStop returns; a mock may throw.
StopOutcomes(x) == IF x \in Comps THEN {"ok"} ELSE {"ok", "throw"}

\* stopModel without its isRunning() check.
StopDecision_NoRunningCheck(found, running) ==
    IF ~found THEN "notFound" ELSE "stop"

\* The checks of stopModel before it calls controls.stop().
StopDecision(found, running) ==
    IF ~found THEN "notFound"
    ELSE IF ~running THEN "notRunning"
    ELSE "stop"

\* stopModel
StopModel(id) ==
    LET i == Lookup(id)
        x == models[i].ctl
        d == StopDecision(i # 0, i # 0 /\ IsRunning(x)) IN
    /\ UNCHANGED <<models, deleteCb, subs, loadCb, bridge, named>>
    /\ CASE d = "notFound" ->
              /\ reply' = Reply("stopModel", id, TRUE, FALSE)
              /\ UNCHANGED <<inst, mock, phaseLog>>
         [] d = "notRunning" ->
              /\ reply' = Reply("stopModel", id, TRUE, TRUE)
              /\ phaseLog' = LogOther({x})
              /\ UNCHANGED <<inst, mock>>
         [] d = "stop" ->
              \E o \in StopOutcomes(x) :
                 LET w == IF o = "ok" THEN StopOk(World, x) ELSE StopThrow(World, x) IN
                 /\ inst' = w.inst
                 /\ mock' = w.mock
                 /\ reply' = [Reply("stopModel", id, TRUE, o = "ok")
                                 EXCEPT !.stops = w.stops, !.threw = w.threw]
                 /\ phaseLog' = IF x \in Comps THEN LogStop(x) ELSE phaseLog

\* The loop of stopAllModels with the try around the whole loop: the first
\* stop() that throws ends it.
StopAllEntry_TryAroundLoop(w, i, o) ==
    LET x == models[i].ctl IN
    IF w.threw = {} /\ WRunning(w, x)
    THEN IF o = "ok" THEN StopOk(w, x) ELSE StopThrow(w, x)
    ELSE w

\* The body of the loop of stopAllModels, on the entry at position i.
StopAllEntry(w, i, o) ==
    LET x == models[i].ctl IN
    IF WRunning(w, x)
    THEN IF o = "ok" THEN StopOk(w, x) ELSE StopThrow(w, x)
    ELSE w

RECURSIVE StopAllFrom(_, _, _)
StopAllFrom(w, i, outs) ==
    IF i > Len(models)
    THEN w
    ELSE StopAllFrom(StopAllEntry(w, i, outs[i]), i + 1, outs)

\* stopAllModels: for (const [modelId, model] of this.models) ...
StopAllModels ==
    \E outs \in [1..Len(models) -> {"ok", "throw"}] :
        /\ \A i \in 1..Len(models) : outs[i] \in StopOutcomes(models[i].ctl)
        /\ LET w == StopAllFrom(World, 1, outs)
               hit == {w.stops[j] : j \in 1..Len(w.stops)} IN
           /\ inst' = w.inst
           /\ mock' = w.mock
           /\ reply' = [Reply("stopAllModels", "", TRUE, TRUE)
                           EXCEPT !.stops = w.stops, !.threw = w.threw]
           /\ phaseLog' = [c \in Comps |->
                             IF c \in hit THEN "stopped" ELSE LogOther(Comps)[c]]
           /\ UNCHANGED <<models, deleteCb, subs, loadCb, bridge, named>>

\* notifyModelDeleteRequest: the callback is invoked when one is installed.
NotifyModelDeleteRequest(r) == [r EXCEPT !.intent = deleteCb]

\* A deleteModel that also removes the entry of the model from the map.
DeleteModel_Removes(id) ==
    /\ models' = MapDelete(models, id)
    /\ reply' = Reply("deleteModel", id, TRUE, Lookup(id) # 0)
    /\ UNCHANGED <<inst, mock, deleteCb, phaseLog, subs, loadCb, bridge, named>>

\* deleteModel
DeleteModel(id) ==
    LET i == Lookup(id) IN
    /\ UNCHANGED <<models, deleteCb, subs, loadCb, bridge, named>>
    /\ IF i = 0
       THEN /\ reply' = Reply("deleteModel", id, TRUE, FALSE)
            /\ UNCHANGED <<inst, mock, phaseLog>>
       ELSE LET x == models[i].ctl IN
            IF ~IsRunning(x)
            THEN /\ reply' = NotifyModelDeleteRequest(Reply("deleteModel", id, TRUE, TRUE))
                 /\ phaseLog' = LogOther({x})
                 /\ UNCHANGED <<inst, mock>>
            ELSE \E o \in StopOutcomes(x) :
                 LET w == IF o = "ok" THEN StopOk(World, x) ELSE StopThrow(World, x)
                     r == [Reply("deleteModel", id, TRUE, o = "ok")
                              EXCEPT !.stops = w.stops, !.threw = w.threw,
                                     !.raised = (o = "throw")] IN
                 /\ inst' = w.inst
                 /\ mock' = w.mock
                 /\ reply' = IF o = "ok" THEN NotifyModelDeleteRequest(r) ELSE r
                 /\ phaseLog' = IF x \in Comps THEN LogStop(x) ELSE phaseLog

\* The registry's own map handed out in place of a copy.
Snapshot_Shared(ms) == [has |-> TRUE, own |-> FALSE, val |-> ms]

\* new Map(this.models): a map object of its own (own), holding the entries
\* of the registry's map at the time of the call.
Snapshot(ms) == [has |-> TRUE, own |-> TRUE, val |-> ms]

\* No map object.
NoSnapshot == [has |-> FALSE, own |-> TRUE, val |-> <<>>]

\* What a listener may do to the map it is given: delete its keys
\* (map.clear()), add a key (map.set("mx", ...)), or leave it as it is.
Edited(val, act) ==
    CASE act = "clear" -> <<>>
      [] act = "add" -> MapSet(val, "mx", "none")
      [] OTHER -> val

\* The listener acts that store the map given for later.
Keeps == {"keep", "clear", "add"}

\* notifyListeners: for (const listener of this.listeners)
\* listener(new Map(this.models)); a listener that throws ends the loop.
\* ms is this.models as the loop goes; an edit of a map that is not the
\* listener's own is an edit of this.models.
RECURSIVE NotifyFrom(_, _, _, _)
NotifyFrom(ms, outs, i, n) ==
    IF i > Len(listeners)
    THEN [notes |-> n, map |-> ms]
    ELSE LET given == Snapshot(ms)
             after == Edited(given.val, outs[i])
             ms1 == IF given.own THEN ms ELSE after
             n1 == [n EXCEPT !.log = Append(@, [l |-> listeners[i], snap |-> given.val]),
                             !.held[listeners[i]] =
                                 IF outs[i] \in Keeps THEN [given EXCEPT !.val = after] ELSE @] IN
         IF outs[i] = "throw"
         THEN [notes |-> [n1 EXCEPT !.raised = TRUE], map |-> ms1]
         ELSE NotifyFrom(ms1, outs, i + 1, n1)

\* held: the map each listener stored when it was last given one.
NoNotes == [op |-> "none", log |-> <<>>, raised |-> FALSE,
            held |-> [l \in Listeners |-> NoSnapshot]]

NotifyListeners(op, ms, outs) ==
    NotifyFrom(ms, outs, 1, [NoNotes EXCEPT !.op = op, !.held = notes.held]).notes

\* this.models once notifyListeners has run over it.
ModelsNotified(ms, outs) ==
    NotifyFrom(ms, outs, 1, [NoNotes EXCEPT !.held = notes.held]).map

\* The map a listener stored, as it reads now.
HeldMap(l) == IF notes.held[l].own THEN notes.held[l].val ELSE models

\* What the listeners may do when called: return, or throw.
ListenerOutcomes == [1..Len(listeners) -> {"ok", "throw"}]

\* The listeners of a component's render all return.
AllReturn == [i \in 1..Len(listeners) |-> "ok"]

\* onModelDeleteRequest(callback)
OnModelDeleteRequest ==
    /\ deleteCb' = TRUE
    /\ UNCHANGED <<models, inst, mock, reply, phaseLog, subs, loadCb, bridge, named>>

\* onModelLoadRequest(callback)
OnModelLoadRequest ==
    /\ loadCb' = TRUE
    /\ UNCHANGED <<models, inst, mock, deleteCb, reply, phaseLog, subs, bridge, named>>

\* notifyModelLoadRequest: the callback is invoked when one is installed.
NotifyModelLoadRequest(r) == [r EXCEPT !.intent = loadCb]

\* loadModel(url): hands the url to the load callback and returns true.
LoadModel(url) ==
    /\ reply' = NotifyModelLoadRequest(Reply("loadModel", url, TRUE, TRUE))
    /\ UNCHANGED <<models, inst, mock, deleteCb, phaseLog, subs, loadCb, bridge, named>>

\* getModel(modelId): this.models.get(modelId)
GetModel(id) ==
    /\ reply' = [Reply("getModel", id, TRUE, Lookup(id) # 0)
                    EXCEPT !.list = IF Lookup(id) = 0 THEN <<>> ELSE <<models[Lookup(id)]>>]
    /\ UNCHANGED <<models, inst, mock, deleteCb, phaseLog, subs, loadCb, bridge, named>>

\* getAllModels(): Array.from(this.models.values())
GetAllModels ==
    /\ reply' = [Reply("getAllModels", "", TRUE, TRUE) EXCEPT !.list = models]
    /\ UNCHANGED <<models, inst, mock, deleteCb, phaseLog, subs, loadCb, bridge, named>>

\* A ModelInfo built from flags kept with the entry at registration.
ModelInfo_Stored(e) == [id |-> e.id, isLoaded |-> TRUE, isRunning |-> FALSE]

\* The ModelInfo the facade builds of an entry.
ModelInfo(e) == [id |-> e.id, isLoaded |-> IsLoaded(e.ctl), isRunning |-> IsRunning(e.ctl)]

\* The listener onModelsChange subscribes: what it hands to the callback
\* for the snapshot modelsMap.
ModelsChangeInfo(modelsMap) == [i \in 1..Len(modelsMap) |-> ModelInfo(modelsMap[i])]

\* TeachableMachineAPIImpl.getModels()
GetModels ==
    /\ reply' = [Reply("getModels", "", TRUE, TRUE)
                    EXCEPT !.list = [i \in 1..Len(models) |-> ModelInfo(models[i])]]
    /\ UNCHANGED <<models, inst, mock, deleteCb, phaseLog, subs, loadCb, bridge, named>>

\* The ModelMessage values sent to handleMessage, and one of no known type.
Messages ==
    [type : {"load-model"}, url : Urls]
        \cup [type : {"start-model", "stop-model", "delete-model"}, modelId : Ids]
        \cup [type : {"stop-all-models", "rename-model"}]

\* A handleMessage whose delete-model case calls stopModel.
HandleMessage_DeleteStops(message) ==
    CASE message.type = "load-model" -> LoadModel(message.url)
      [] message.type = "start-model" -> StartModel(message.modelId)
      [] message.type = "stop-model" -> StopModel(message.modelId)
      [] message.type = "stop-all-models" -> StopAllModels
      [] message.type = "delete-model" -> StopModel(message.modelId)
      [] OTHER ->
            /\ reply' = Reply("handleMessage", "", TRUE, FALSE)
            /\ UNCHANGED <<models, inst, mock, deleteCb, phaseLog, subs, loadCb, bridge, named>>

\* handleMessage(message) / TeachableMachineAPIImpl.sendMessage(message)
HandleMessage(message) ==
    CASE message.type = "load-model" -> LoadModel(message.url)
      [] message.type = "start-model" -> StartModel(message.modelId)
      [] message.type = "stop-model" -> StopModel(message.modelId)
      [] message.type = "stop-all-models" -> StopAllModels
      [] message.type = "delete-model" -> DeleteModel(message.modelId)
      [] OTHER ->
            /\ reply' = Reply("handleMessage", "", TRUE, FALSE)
            /\ UNCHANGED <<models, inst, mock, deleteCb, phaseLog, subs, loadCb, bridge, named>>

\* subscribe(listener): this.listeners.add(listener)
Subscribe(l) ==
    /\ listeners' = IF \E i \in 1..Len(listeners) : listeners[i] = l
                     THEN listeners ELSE Append(listeners, l)
    /\ UNCHANGED <<models, inst, mock, deleteCb, reply, phaseLog, notes, loadCb, bridge, named>>

\* The disposer subscribe returned: this.listeners.delete(listener)
Dispose(l) ==
    /\ listeners' = SelectSeq(listeners, LAMBDA x : x # l)
    /\ UNCHANGED <<models, inst, mock, deleteCb, reply, phaseLog, notes, loadCb, bridge, named>>

\* registerModel(item, controls), called for a mock capability, the
\* listeners acting as outs says
RegisterModelWith(id, k, outs) ==
    /\ models' = ModelsNotified(MapSet(models, id, k), outs)
    /\ notes' = NotifyListeners("registerModel", MapSet(models, id, k), outs)
    /\ UNCHANGED <<inst, mock, deleteCb, reply, phaseLog, listeners, loadCb, bridge, named>>

RegisterModel(id, k) == \E outs \in ListenerOutcomes : RegisterModelWith(id, k, outs)

\* unregisterModel(modelId)
UnregisterModelWith(id, outs) ==
    /\ models' = ModelsNotified(MapDelete(models, id), outs)
    /\ notes' = NotifyListeners("unregisterModel", MapDelete(models, id), outs)
    /\ UNCHANGED <<inst, mock, deleteCb, reply, phaseLog, listeners, loadCb, bridge, named>>

UnregisterModel(id) == \E outs \in ListenerOutcomes : UnregisterModelWith(id, outs)

\* What listeners that store or edit the map they are given may do.
ListenerUses == [1..Len(listeners) -> {"ok", "keep", "clear", "add"}]

\* registerModel and unregisterModel with such listeners subscribed.
RegisterModelSeen(id, k) == \E outs \in ListenerUses : RegisterModelWith(id, k, outs)

UnregisterModelSeen(id) == \E outs \in ListenerUses : UnregisterModelWith(id, outs)

\* A mock capability finishes loading its model.
MockLoaded(k) ==
    /\ ~mock[k].loaded
    /\ mock' = [mock EXCEPT ![k].loaded = TRUE]
    /\ UNCHANGED <<models, inst, deleteCb, reply, phaseLog, subs, loadCb, bridge, named>>

\* ------------------------------------------- the life of a model component
\* The load effect (deps [item.url, modelLoaded]): if (modelLoaded ||
\* !canvasContainerRef.current) return; setModelLoaded(true); the load begins.
LoadEffect(r) ==
    IF r.modelLoaded \/ r.phase # "mounted"
    THEN r
    ELSE [SetModelLoaded(r, TRUE) EXCEPT !.loading = TRUE]

\* The Model Registration effect (deps [modelLoaded, item]) run again by a
\* render: the cleanup of the render before calls unregisterModel(item.id),
\* then registerModel(item, controls) is called if (modelLoaded).  Each call
\* notifies the listeners.
RegistrationEffect(c, loaded) ==
    LET ms1 == MapDelete(models, ItemId(c))
        n1 == NotifyFrom(ms1, AllReturn, 1,
                         [NoNotes EXCEPT !.op = "unregisterModel", !.held = notes.held])
        n2 == NotifyFrom(MapSet(n1.map, ItemId(c), c), AllReturn, 1,
                         [n1.notes EXCEPT !.op = "registerModel"])
    IN  IF loaded THEN n2 ELSE n1

\* First render and its effects: the load effect sets modelLoaded and starts
\* the load; the registration effect, where the component carries it, finds
\* modelLoaded false and registers nothing.
Mount(c) ==
    /\ inst[c].phase = "new"
    /\ \E e \in BOOLEAN :
          inst' = [inst EXCEPT ![c] =
                      LoadEffect([@ EXCEPT !.phase = "mounted", !.kind = "image",
                                           !.registers = e])]
    /\ UNCHANGED <<models, mock, deleteCb, reply, phaseLog, subs, loadCb, bridge, named>>

\* The same for a PoseModel, whose load effect, handleStart, handleStop,
\* animationLoop and cleanup are those of ImageModel with tmPose for tmImage
\* and "pose" for "image"; poseCanvasRef.current, which its predict also
\* needs, is set by handleStart whenever the webcam has finished setup.
MountPose(c) ==
    /\ inst[c].phase = "new"
    /\ \E e \in BOOLEAN :
          inst' = [inst EXCEPT ![c] =
                      LoadEffect([@ EXCEPT !.phase = "mounted", !.kind = "pose",
                                           !.registers = e])]
    /\ UNCHANGED <<models, mock, deleteCb, reply, phaseLog, subs, loadCb, bridge, named>>

\* React renders the component again, for its own updates or with its
\* parent: the state updates awaiting the render are applied (the queued
\* setLabels calls run), and the effects whose dependency modelLoaded
\* changed run again.  The fiber the render replaces keeps the mark of the
\* updates it carried, unless the render was for them alone and found the
\* state as it was.
Rendered(c, parent) ==
    LET r == inst[c]
        loaded == IF r.setLoaded = "none" THEN r.modelLoaded ELSE r.setLoaded = "true"
        run == IF r.setRun = "none" THEN r.running ELSE r.setRun = "true"
        changed == \/ loaded # r.modelLoaded
                   \/ run # r.running
                   \/ r.queue # <<>>
                   \/ r.pending
        a == RunQueue([r EXCEPT !.modelLoaded = loaded, !.setLoaded = "none",
                                !.running = run, !.setRun = "none",
                                !.pending = FALSE,
                                !.wasLoaded = @ \/ loaded,
                                !.dirty = IF parent THEN UpdateQueued(r) ELSE changed,
                                !.bound = ~@], 1)
        e == RegistrationEffect(c, loaded) IN
    /\ inst' = [inst EXCEPT ![c] = IF loaded # r.modelLoaded THEN LoadEffect(a) ELSE a]
    /\ IF loaded # r.modelLoaded /\ r.registers
       THEN models' = e.map /\ notes' = e.notes
       ELSE UNCHANGED <<models, notes>>
    /\ UNCHANGED <<mock, deleteCb, reply, phaseLog, listeners, loadCb, bridge, named>>

\* The render React scheduled for the updates of the component.
Render(c) ==
    /\ inst[c].phase = "mounted"
    /\ UpdateQueued(inst[c])
    /\ Rendered(c, FALSE)

\* The component is rendered because its parent is (ModelItem, the list).
ParentRender(c) ==
    /\ inst[c].phase = "mounted"
    /\ Rendered(c, TRUE)

\* A state of the component other than labels, running and modelLoaded is
\* set: setAvailableCameras and setSelectedCameraId of the camera effect,
\* whose enumerateDevices may resolve after the unmount as well, the
\* onChange of the camera select or of the flip checkbox.
CameraUpdate(c) ==
    /\ inst[c].phase # "new"
    /\ inst' = [inst EXCEPT ![c].pending = TRUE]
    /\ UNCHANGED <<models, mock, deleteCb, reply, phaseLog, subs, loadCb, bridge, named>>

\* The promise of loadModel() settles: before or after the render the load
\* effect asked for with setModelLoaded(true), before or after an unmount.
LoadSettles(r) == r.loading

\* loadModel().then(...): setLabels(labelsArray), labelsRef.current and the
\* model ref are set.
LoadOk(c) ==
    /\ LoadSettles(inst[c])
    /\ inst' = [inst EXCEPT ![c] =
                   [SetLabels(@, SetValue) EXCEPT !.loading = FALSE,
                                                  !.model = TRUE,
                                                  !.failed = FALSE,
                                                  !.labelsRef = LabelsArray]]
    /\ UNCHANGED <<models, mock, deleteCb, reply, phaseLog, subs, loadCb, bridge, named>>

\* loadModel().catch(...): console.error; setModelLoaded(false).  No load
\* is pending when it ends.
LoadFail(c) ==
    /\ LoadSettles(inst[c])
    /\ inst' = [inst EXCEPT ![c] =
                   [SetModelLoaded(@, FALSE) EXCEPT !.loading = FALSE, !.failed = TRUE]]
    /\ UNCHANGED <<models, mock, deleteCb, reply, phaseLog, subs, loadCb, bridge, named>>

\* The component is removed: the effect cleanups run, the one of the
\* registration effect where the component carries it.  React parts its two
\* fibers: of the mark the render before left, the setters go on seeing
\* what is on the fiber they are bound to.
Unmount(c) ==
    /\ inst[c].phase = "mounted"
    /\ inst' = [inst EXCEPT ![c] =
                   [UnmountCleanup(@) EXCEPT !.phase = "gone",
                                             !.dirty = @ /\ ~inst[c].bound,
                                             !.bound = TRUE]]
    /\ IF inst[c].registers
       THEN /\ models' = MapDelete(models, ItemId(c))
            /\ notes' = NotifyListeners("unregisterModel", models', AllReturn)
       ELSE UNCHANGED <<models, notes>>
    /\ phaseLog' = LogOther({c})
    /\ UNCHANGED <<mock, deleteCb, reply, listeners, loadCb, bridge, named>>

\* The webcam a start awaits finished setup: it holds a device now.
SetupResolved(r, own, called) ==
    IF own = "cur"
    THEN [r EXCEPT !.webcamRef = "ready", !.curCall = FALSE]
    ELSE [r EXCEPT !.orphanSetup = @ - 1, !.leaked = @ + 1,
                   !.orphanCalls = @ - (IF called THEN 1 ELSE 0)]

\* The setup a start awaits was rejected.
SetupRejected(r, own, called) ==
    IF own = "cur"
    THEN [r EXCEPT !.webcamRef = "failed", !.curCall = FALSE]
    ELSE [r EXCEPT !.orphanSetup = @ - 1,
                   !.orphanCalls = @ - (IF called THEN 1 ELSE 0)]

\* A start awaits the setup of the webcam in webcamRef ("cur") or of an
\* earlier one ("orphan"); called: a startModel call awaits that start.
AwaitsSetup(r, own, called) ==
    IF own = "cur"
    THEN r.webcamRef = "setup" /\ called = r.curCall
    ELSE IF called THEN r.orphanCalls > 0 ELSE r.orphanSetup > r.orphanCalls

\* 'await webcamRef.current.setup(constraints)' resumes a start.  When the
\* start ends here, the startModel call awaiting it returns; the start of
\* the Start button or of controls.start() has no such call.
SetupDone(c, own, ok) ==
    \E called \in BOOLEAN :
       /\ AwaitsSetup(inst[c], own, called)
       /\ IF ok
          THEN /\ Held(inst[c]) < MaxDevices
               /\ LET r == AfterSetup(SetupResolved(inst[c], own, called))
                      goesOn == r.plays > inst[c].plays IN
                  /\ inst' = [inst EXCEPT ![c] =
                                 [r EXCEPT !.playCalls =
                                     @ + (IF goesOn /\ called THEN 1 ELSE 0)]]
                  /\ reply' = IF goesOn \/ ~called
                              THEN reply
                              ELSE StartSettled(c, "aborted")
          ELSE /\ inst' = [inst EXCEPT ![c] =
                              StartCatch(SetupRejected(@, own, called))]
               /\ reply' = IF called THEN StartSettled(c, "deviceFailed") ELSE reply
       /\ UNCHANGED <<models, mock, deleteCb, phaseLog, subs, loadCb, bridge, named>>

\* 'await webcamRef.current.play()' resumes a start, which ends here: the
\* startModel call awaiting it, if there is one, returns.
PlayDone(c, ok) ==
    \E called \in BOOLEAN :
       /\ IF called
          THEN inst[c].playCalls > 0
          ELSE inst[c].plays > inst[c].playCalls
       /\ LET r == [inst[c] EXCEPT !.plays = @ - 1,
                                   !.playCalls = @ - (IF called THEN 1 ELSE 0)] IN
          IF ok
          THEN /\ inst' = [inst EXCEPT ![c] = AfterPlay(r)]
               /\ reply' = IF called THEN StartSettled(c, "started") ELSE reply
          ELSE /\ inst' = [inst EXCEPT ![c] = StartCatch(r)]
               /\ reply' = IF called THEN StartSettled(c, "deviceFailed") ELSE reply
       /\ UNCHANGED <<models, mock, deleteCb, phaseLog, subs, loadCb, bridge, named>>

\* An animation frame runs a scheduled animationLoop: the one
\* animationFrameRef names ("ref") or an older one ("orphan").
Frame(c, which) ==
    /\ IF which = "ref" THEN inst[c].afr = "pending" ELSE inst[c].rafOrphan > 0
    /\ LET r == IF which = "ref"
                THEN [inst[c] EXCEPT !.afr = "stale"]
                ELSE [inst[c] EXCEPT !.rafOrphan = @ - 1] IN
       inst' = [inst EXCEPT ![c] = AnimationLoop(r)]
    /\ UNCHANGED <<models, mock, deleteCb, reply, phaseLog, subs, loadCb, bridge, named>>

\* A predict whose catch block clears the confidences.
PredictReturns_ClearsOnError(r, ok, prediction) ==
    IF ok
    THEN SetLabels(r, [u |-> "update", p |-> prediction])
    ELSE SetLabels(r, [u |-> "clear", p |-> <<>>])

\* predict() after 'await imageModelRef.current.predict(canvas)': the
\* labels are updated, or the error is caught.
PredictReturns(r, ok, prediction) ==
    IF ok
    THEN SetLabels(r, [u |-> "update", p |-> prediction])
    ELSE r

\* An inference ends and its animationLoop run goes on.
PredictDone(c, ok, prediction) ==
    /\ inst[c].inflight > 0
    /\ inst' = [inst EXCEPT ![c] =
                   AfterPredict(PredictReturns([@ EXCEPT !.inflight = @ - 1],
                                               ok, prediction),
                                IF ok THEN "updated" ELSE "failed")]
    /\ UNCHANGED <<models, mock, deleteCb, reply, phaseLog, subs, loadCb, bridge, named>>

\* The modelLoaded a handleStart that can be called has closed over: that
\* of the last render (the Start button), and true once a render has made
\* controls with modelLoaded true (the registration effect hands out the
\* controls of such renders alone).
Closures(r) == {r.modelLoaded} \cup (IF r.wasLoaded THEN {TRUE} ELSE {})

\* The capability's start() called directly: the Start button of the
\* component (onClick={handleStart}) or controls.start() of a holder of the
\* controls.  handleStart has no check of its own beyond modelLoaded and
\* the container.
DirectStart(c) ==
    /\ inst[c].phase # "new"
    /\ Starts(inst[c]) + Loops(inst[c]) < MaxTasks
    /\ \E loaded \in Closures(inst[c]) :
          inst' = [inst EXCEPT ![c] = HandleStart(@, loaded)]
    /\ phaseLog' = LogStartCall(c)
    /\ UNCHANGED <<models, mock, deleteCb, reply, subs, loadCb, bridge, named>>

\* The capability's stop() called directly: the Stop button, or
\* controls.stop() of a holder of the controls, which handleStop serves
\* after the unmount as before it.
DirectStop(c) ==
    /\ inst[c].phase # "new"
    /\ inst' = [inst EXCEPT ![c] = HandleStop(@)]
    /\ phaseLog' = LogStop(c)
    /\ UNCHANGED <<models, mock, deleteCb, reply, subs, loadCb, bridge, named>>

\* ------------------------------------------------------------- the bridge
\* Text is a sequence of characters; JavaScript values are tagged records.
\* Numbers are counted in thousandths (the confidences have three decimals).
SIMX_CHANNEL == "eanders-ms/pxt-teachablemachine"
\* Predictions in one batch.
MaxBatch == 2
\* Prediction handlers registered in the code extension.
MaxHandlers == 2

Str(cs) == [t |-> "str", v |-> cs]
Num(n) == [t |-> "num", v |-> <<n>>]
Arr(xs) == [t |-> "arr", v |-> xs]
Obj(ms) == [t |-> "obj", v |-> ms]
Null == [t |-> "null", v |-> <<>>]
Undefined == [t |-> "undefined", v |-> <<>>]

K_type == <<"t", "y", "p", "e">>
K_modelType == <<"m", "o", "d", "e", "l", "T", "y", "p", "e">>
K_predictions == <<"p", "r", "e", "d", "i", "c", "t", "i", "o", "n", "s">>
K_name == <<"n", "a", "m", "e">>
K_confidence == <<"c", "o", "n", "f", "i", "d", "e", "n", "c", "e">>
K_model == <<"m", "o", "d", "e", "l">>
T_ping == <<"p", "i", "n", "g">>
T_pong == <<"p", "o", "n", "g">>
T_hello == <<"h", "e", "l", "l", "o">>
T_init == <<"i", "n", "i", "t">>
T_predictions == <<"p", "r", "e", "d", "i", "c", "t", "i", "o", "n", "s">>
T_image == <<"i", "m", "a", "g", "e">>
T_pose == <<"p", "o", "s", "e">>
T_sound == <<"s", "o", "u", "n", "d">>
T_null == <<"n", "u", "l", "l">>

DigitChars == <<"0", "1", "2", "3", "4", "5", "6", "7", "8", "9">>
IsDigit(c) == \E d \in 1..10 : DigitChars[d] = c
DigitValue(c) == (CHOOSE d \in 1..10 : DigitChars[d] = c) - 1

\* The decimal digits of a natural number.
RECURSIVE Digits(_)
Digits(k) == IF k < 10 THEN <<DigitChars[k + 1]>>
             ELSE Append(Digits(k \div 10), DigitChars[(k % 10) + 1])

\* The digits after the point, without trailing zeros (f in 1..999).
Fraction(f) ==
    IF f % 100 = 0 THEN <<DigitChars[(f \div 100) + 1]>>
    ELSE IF f % 10 = 0
         THEN <<DigitChars[(f \div 100) + 1], DigitChars[((f \div 10) % 10) + 1]>>
         ELSE <<DigitChars[(f \div 100) + 1], DigitChars[((f \div 10) % 10) + 1],
                DigitChars[(f % 10) + 1]>>

\* JSON.stringify of a number: the shortest decimal text.
NumText(n) ==
    IF n % 1000 = 0 THEN Digits(n \div 1000)
    ELSE Digits(n \div 1000) \o <<".">> \o Fraction(n % 1000)

\* No character escaped.
EscapeChar_None(c) == <<c>>

\* JSON.stringify of the characters of a string: quote and backslash escaped.
EscapeChar(c) == IF c \in {"\"", "\\"} THEN <<"\\", c>> ELSE <<c>>

RECURSIVE EscapeFrom(_, _)
EscapeFrom(cs, i) ==
    IF i > Len(cs) THEN <<>> ELSE EscapeChar(cs[i]) \o EscapeFrom(cs, i + 1)

Escape(cs) == EscapeFrom(cs, 1)

Quote(cs) == <<"\"">> \o Escape(cs) \o <<"\"">>

\* JSON.stringify(value)
RECURSIVE Stringify(_)
RECURSIVE StringifyItems(_, _)
RECURSIVE StringifyMembers(_, _)
Stringify(x) ==
    CASE x.t = "str" -> Quote(x.v)
      [] x.t = "num" -> NumText(x.v[1])
      [] x.t = "arr" -> <<"[">> \o StringifyItems(x.v, 1) \o <<"]">>
      [] x.t = "obj" -> <<"{">> \o StringifyMembers(x.v, 1) \o <<"}">>
      [] OTHER -> T_null

StringifyItems(xs, i) ==
    IF i > Len(xs) THEN <<>>
    ELSE (IF i > 1 THEN <<",">> ELSE <<>>) \o Stringify(xs[i]) \o StringifyItems(xs, i + 1)

StringifyMembers(ms, i) ==
    IF i > Len(ms) THEN <<>>
    ELSE (IF i > 1 THEN <<",">> ELSE <<>>) \o Quote(ms[i].k) \o <<":">>
            \o Stringify(ms[i].v) \o StringifyMembers(ms, i + 1)

\* TextEncoder.encode / Buffer.fromUTF8: one byte per ASCII character (the
\* byte is named by its character), two bytes for U+00E9.
CharBytes(c) == IF c = "é" THEN <<"C3", "A9">> ELSE <<c>>

RECURSIVE Utf8EncodeRange(_, _, _)
Utf8EncodeRange(cs, lo, hi) ==
    IF lo > hi THEN <<>>
    ELSE IF lo = hi THEN CharBytes(cs[lo])
    ELSE LET mid == (lo + hi) \div 2 IN
         Utf8EncodeRange(cs, lo, mid) \o Utf8EncodeRange(cs, mid + 1, hi)

Utf8Encode(cs) == Utf8EncodeRange(cs, 1, Len(cs))

\* TextDecoder.decode / Buffer.toString: the character that starts at byte
\* i; an ill-formed byte decodes to U+FFFD.
ByteChars(bs, i) ==
    IF bs[i] = "C3" /\ i < Len(bs) /\ bs[i + 1] = "A9" THEN <<"é">>
    ELSE IF bs[i] = "A9" /\ i > 1 /\ bs[i - 1] = "C3" THEN <<>>
    ELSE IF bs[i] \in {"C3", "A9"} THEN <<"FFFD">>
    ELSE <<bs[i]>>

RECURSIVE Utf8DecodeRange(_, _, _)
Utf8DecodeRange(bs, lo, hi) ==
    IF lo > hi THEN <<>>
    ELSE IF lo = hi THEN ByteChars(bs, lo)
    ELSE LET mid == (lo + hi) \div 2 IN
         Utf8DecodeRange(bs, lo, mid) \o Utf8DecodeRange(bs, mid + 1, hi)

Utf8Decode(bs) == Utf8DecodeRange(bs, 1, Len(bs))

\* JSON.parse(text): ok is FALSE where it throws a SyntaxError.  The texts
\* parsed here carry no white space, no escapes other than \" and \\, and
\* numbers of at most three decimals.
Fail == [ok |-> FALSE, v |-> Null, i |-> 0]
Done(v, i) == [ok |-> TRUE, v |-> v, i |-> i]
At(s, i) == IF i <= Len(s) THEN s[i] ELSE "EOF"

RECURSIVE ParseStringFrom(_, _, _)
ParseStringFrom(s, i, acc) ==
    IF i > Len(s) THEN Fail
    ELSE IF s[i] = "\"" THEN Done(Str(acc), i + 1)
    ELSE IF s[i] = "\\"
         THEN IF At(s, i + 1) \in {"\"", "\\"}
              THEN ParseStringFrom(s, i + 2, Append(acc, s[i + 1]))
              ELSE Fail
         ELSE ParseStringFrom(s, i + 1, Append(acc, s[i]))

RECURSIVE DigitsEnd(_, _)
DigitsEnd(s, i) == IF i <= Len(s) /\ IsDigit(s[i]) THEN DigitsEnd(s, i + 1) ELSE i

RECURSIVE NatOf(_, _, _, _)
NatOf(s, i, j, acc) ==
    IF i >= j THEN acc ELSE NatOf(s, i + 1, j, acc * 10 + DigitValue(s[i]))

ParseNumber(s, i) ==
    LET j == DigitsEnd(s, i) IN
    IF j = i \/ (s[i] = "0" /\ j > i + 1) THEN Fail
    ELSE IF At(s, j) = "."
         THEN LET k == DigitsEnd(s, j + 1)
                  n == k - (j + 1) IN
              IF n = 0 \/ n > 3 THEN Fail
              ELSE Done(Num(NatOf(s, i, j, 0) * 1000
                            + NatOf(s, j + 1, k, 0)
                                * (IF n = 1 THEN 100 ELSE IF n = 2 THEN 10 ELSE 1)), k)
         ELSE Done(Num(NatOf(s, i, j, 0) * 1000), j)

RECURSIVE ParseValue(_, _)
RECURSIVE ParseItems(_, _, _)
RECURSIVE ParseMembers(_, _, _)
ParseValue(s, i) ==
    LET c == At(s, i) IN
    CASE c = "\"" -> ParseStringFrom(s, i + 1, <<>>)
      [] c = "{" -> IF At(s, i + 1) = "}" THEN Done(Obj(<<>>), i + 2)
                    ELSE ParseMembers(s, i + 1, <<>>)
      [] c = "[" -> IF At(s, i + 1) = "]" THEN Done(Arr(<<>>), i + 2)
                    ELSE ParseItems(s, i + 1, <<>>)
      [] c = "n" -> IF i + 3 <= Len(s) /\ SubSeq(s, i, i + 3) = T_null
                    THEN Done(Null, i + 4) ELSE Fail
      [] IsDigit(c) -> ParseNumber(s, i)
      [] OTHER -> Fail

ParseItems(s, i, acc) ==
    LET r == ParseValue(s, i) IN
    IF ~r.ok THEN Fail
    ELSE IF At(s, r.i) = "," THEN ParseItems(s, r.i + 1, Append(acc, r.v))
    ELSE IF At(s, r.i) = "]" THEN Done(Arr(Append(acc, r.v)), r.i + 1)
    ELSE Fail

ParseMembers(s, i, acc) ==
    IF At(s, i) # "\"" THEN Fail
    ELSE LET k == ParseStringFrom(s, i + 1, <<>>) IN
         IF ~k.ok \/ At(s, k.i) # ":" THEN Fail
         ELSE LET r == ParseValue(s, k.i + 1)
                  m == Append(acc, [k |-> k.v.v, v |-> r.v]) IN
              IF ~r.ok THEN Fail
              ELSE IF At(s, r.i) = "," THEN ParseMembers(s, r.i + 1, m)
              ELSE IF At(s, r.i) = "}" THEN Done(Obj(m), r.i + 1)
              ELSE Fail

JsonParse(s) ==
    LET r == ParseValue(s, 1) IN
    IF r.ok /\ r.i = Len(s) + 1 THEN r ELSE Fail

\* x[key] of a value that is neither null nor undefined.
Get(x, key) ==
    IF x.t = "obj" /\ \E j \in 1..Len(x.v) : x.v[j].k = key
    THEN x.v[CHOOSE j \in 1..Len(x.v) :
                /\ x.v[j].k = key
                /\ \A h \in (j + 1)..Len(x.v) : x.v[h].k # key].v
    ELSE Undefined

\* Reading a property of null or undefined throws a TypeError.
Nullish(x) == x.t \in {"null", "undefined"}

\* !!x
Truthy(x) ==
    CASE x.t = "str" -> x.v # <<>>
      [] x.t = "num" -> x.v[1] # 0
      [] x.t \in {"arr", "obj"} -> TRUE
      [] OTHER -> FALSE

IsStr(x, cs) == x.t = "str" /\ x.v = cs

\* { type: t }
Msg(t) == Obj(<<[k |-> K_type, v |-> Str(t)]>>)

\* The PredictionMessage of a batch: its kind and its ordered predictions.
Prediction(name, confidence) ==
    Obj(<<[k |-> K_name, v |-> Str(name)], [k |-> K_confidence, v |-> Num(confidence)]>>)

PredictionMessage(modelType, predictions) ==
    Obj(<<[k |-> K_type, v |-> Str(T_predictions)],
          [k |-> K_modelType, v |-> Str(modelType)],
          [k |-> K_predictions, v |-> Arr(predictions)]>>)

\* What handling one inbound message did: the frames posted, whether the
\* payload was decoded, the messages dispatched, the handler calls made, and
\* whether an exception left the handler.
Quiet == [out |-> <<>>, decoded |-> FALSE, dispatched |-> <<>>, calls |-> <<>>,
          escaped |-> FALSE]
Thrown == [Quiet EXCEPT !.escaped = TRUE]

\* ---- the simulator extension (extension.ts)
\* postExtensionMessage(msg): the packet posted to window.parent.
PostExtensionMessage(msg) ==
    [type |-> "messagepacket", channel |-> SIMX_CHANNEL,
     data |-> Utf8Encode(Stringify(msg))]

\* receiveExtensionMessage without its ping case.
ReceiveExtensionMessage_NoPing(msg) ==
    IF Nullish(msg) THEN Thrown ELSE Quiet

\* A receiveExtensionMessage that answers init with hello.
ReceiveExtensionMessage_InitAnswered(msg) ==
    IF Nullish(msg) THEN Thrown
    ELSE IF IsStr(Get(msg, K_type), T_ping)
         THEN [Quiet EXCEPT !.out = <<PostExtensionMessage(Msg(T_pong))>>]
         ELSE IF IsStr(Get(msg, K_type), T_init)
              THEN [Quiet EXCEPT !.out = <<PostExtensionMessage(Msg(T_hello))>>]
              ELSE Quiet

\* receiveExtensionMessage(msg): switch (msg.type)
ReceiveExtensionMessage(msg) ==
    IF Nullish(msg) THEN Thrown
    ELSE IF IsStr(Get(msg, K_type), T_ping)
         THEN [Quiet EXCEPT !.out = <<PostExtensionMessage(Msg(T_pong))>>]
         ELSE Quiet

\* A missing srcFrameIndex taken for the primary simulator.
SrcFrameIndex_DefaultZero(simmsg) ==
    IF simmsg.srcFrameIndex.def THEN simmsg.srcFrameIndex.v ELSE 0

\* (simmsg.srcFrameIndex as number) ?? -1
SrcFrameIndex(simmsg) ==
    IF simmsg.srcFrameIndex.def THEN simmsg.srcFrameIndex.v ELSE -1

FromPrimarySim(simmsg) == SrcFrameIndex(simmsg) = 0

\* No channel filter.
OnChannel_Any(simmsg) == TRUE

\* simmsg.channel === SIMX_CHANNEL
OnChannel(simmsg) == simmsg.channel = SIMX_CHANNEL

\* A receiveSimControlMessage that decodes the payload before it filters.
ReceiveSimControlMessage_DecodeFirst(simmsg) ==
    LET r == JsonParse(Utf8Decode(simmsg.data)) IN
    IF ~r.ok THEN [Thrown EXCEPT !.decoded = TRUE]
    ELSE IF ~FromPrimarySim(simmsg) \/ ~OnChannel(simmsg)
         THEN [Quiet EXCEPT !.decoded = TRUE]
         ELSE [ReceiveExtensionMessage(r.v) EXCEPT !.decoded = TRUE,
                                                   !.dispatched = <<r.v>>]

\* receiveSimControlMessage(simmsg)
ReceiveSimControlMessage(simmsg) ==
    IF ~FromPrimarySim(simmsg) THEN Quiet
    ELSE IF ~OnChannel(simmsg) THEN Quiet
    ELSE LET r == JsonParse(Utf8Decode(simmsg.data)) IN
         IF ~r.ok
         THEN [Thrown EXCEPT !.decoded = TRUE]
         ELSE [ReceiveExtensionMessage(r.v) EXCEPT !.decoded = TRUE,
                                                   !.dispatched = <<r.v>>]

\* receiveSimMessage(simmsg): switch (simmsg.type)
ReceiveSimMessage(simmsg) ==
    IF simmsg.type = "messagepacket" THEN ReceiveSimControlMessage(simmsg) ELSE Quiet

\* receiveMessage(ev): const { data } = ev; const { type } = data;
\* if (!data || !type) return
ReceiveMessage(ev) ==
    IF ev.null THEN Thrown
    ELSE IF ev.type = "" THEN Quiet
    ELSE ReceiveSimMessage(ev)

\* ---- the code extension (custom.ts)
\* postExtensionMessage(msg): control.simmessages.send(SIMX_CHANNEL, ...)
CodexPost(msg) == [channel |-> SIMX_CHANNEL, data |-> Utf8Encode(Stringify(msg))]

\* predictions.forEach(prediction => handlers.forEach(handler =>
\*     handler(prediction.name, prediction.confidence, prediction.model)))
RECURSIVE EmitFrom(_, _, _, _)
EmitFrom(handlers, ps, i, res) ==
    IF i > Len(ps) THEN res
    ELSE IF Nullish(ps[i]) THEN [res EXCEPT !.escaped = (handlers # <<>>)]
    ELSE EmitFrom(handlers, ps, i + 1,
            [res EXCEPT !.calls = @ \o [x \in 1..Len(handlers) |->
                            [h |-> handlers[x],
                             name |-> Get(ps[i], K_name),
                             confidence |-> Get(ps[i], K_confidence)]]])

EmitPredictions(handlers, predictions) ==
    IF predictions.t # "arr" THEN Thrown ELSE EmitFrom(handlers, predictions.v, 1, Quiet)

\* Every modelType taken for image.
KindOf_AlwaysImage(modelType) == "image"

\* The handler list a modelType selects, none for another modelType.
KindOf(modelType) ==
    IF IsStr(modelType, T_pose) THEN "pose"
    ELSE IF IsStr(modelType, T_image) THEN "image"
    ELSE IF IsStr(modelType, T_sound) THEN "sound"
    ELSE "none"

\* handleSimxMessage(b)
HandleSimxMessage(b, handlers) ==
    LET r == JsonParse(Utf8Decode(b)) IN
    IF ~r.ok \/ Nullish(r.v) THEN [Thrown EXCEPT !.decoded = TRUE]
    ELSE LET type == Get(r.v, K_type)
             seen == [Quiet EXCEPT !.decoded = TRUE, !.dispatched = <<r.v>>] IN
         IF ~Truthy(type) THEN [seen EXCEPT !.dispatched = <<>>]
         ELSE IF IsStr(type, T_hello) THEN [seen EXCEPT !.out = <<CodexPost(Msg(T_init))>>]
         ELSE IF IsStr(type, T_ping) THEN [seen EXCEPT !.out = <<CodexPost(Msg(T_pong))>>]
         ELSE IF IsStr(type, T_predictions) /\ KindOf(Get(r.v, K_modelType)) # "none"
              THEN LET e == EmitPredictions(handlers[KindOf(Get(r.v, K_modelType))],
                                            Get(r.v, K_predictions)) IN
                   [seen EXCEPT !.calls = e.calls, !.escaped = e.escaped]
         ELSE seen

\* ---- the inputs of the bridge
Kinds == {"image", "pose", "sound"}
KindText(kind) ==
    IF kind = "image" THEN T_image ELSE IF kind = "pose" THEN T_pose ELSE T_sound
Handlers == {"h1", "h2"}         \* functions handed to on*Prediction

\* Label names (one with a quote, a non-ASCII letter and a backslash) and
\* confidences, in thousandths.
Predictions ==
    {Prediction(<<"A">>, 0), Prediction(<<"A">>, 667),
     Prediction(<<"\"", "é", "\\">>, 50), Prediction(<<"\"", "é", "\\">>, 1000)}
Batches == UNION {[1..n -> Predictions] : n \in 0..MaxBatch}

\* Payloads of inbound frames: well-formed messages, and malformed ones.
Payloads ==
    {Utf8Encode(Stringify(m)) :
        m \in {Msg(T_ping), Msg(T_pong), Msg(T_hello), Msg(T_init), Msg(<<"x">>),
               Obj(<<>>), Null, Str(T_ping),
               PredictionMessage(T_image, <<Prediction(<<"A">>, 667),
                                            Prediction(<<"\"", "é", "\\">>, 50)>>),
               PredictionMessage(T_sound, <<Prediction(<<"A">>, 0)>>),
               PredictionMessage(<<"x">>, <<Prediction(<<"A">>, 667)>>),
               PredictionMessage(T_pose, <<Null>>),
               Obj(<<[k |-> K_type, v |-> Str(T_predictions)],
                     [k |-> K_modelType, v |-> Str(T_pose)]>>)}}
        \cup {<<"{">>, <<"C3">>}

\* srcFrameIndex: absent, 0, or another frame.
SrcFrameIndexes ==
    {[def |-> FALSE, v |-> 0], [def |-> TRUE, v |-> 0],
     [def |-> TRUE, v |-> 1], [def |-> TRUE, v |-> -1]}

\* A message event whose data is null or undefined.
NullEvent ==
    [null |-> TRUE, type |-> "", channel |-> "",
     srcFrameIndex |-> [def |-> FALSE, v |-> 0], data |-> <<>>]

\* Message events: ev.data, with type "" for a data without a type.
Events ==
    {NullEvent}
        \cup [null : {FALSE}, type : {"messagepacket"},
              channel : {SIMX_CHANNEL, "other/channel"},
              srcFrameIndex : SrcFrameIndexes, data : Payloads]
        \cup [null : {FALSE}, type : {"debugger", ""}, channel : {SIMX_CHANNEL},
              srcFrameIndex : {[def |-> TRUE, v |-> 0]},
              data : {Utf8Encode(Stringify(Msg(T_ping)))}]

\* heard: the listener was installed when the last hello was posted.
NewSimx == [listening |-> FALSE, op |-> "none", ev |-> NullEvent, res |-> Quiet,
            posted |-> Undefined, heard |-> FALSE]
\* registered: the namespace has been loaded, registerSimx() has run.
NewCodex == [registered |-> FALSE,
             handlers |-> [k \in Kinds |-> <<>>], op |-> "none", buf |-> <<>>,
             res |-> Quiet]

\* ------------------------------------------------- the name of a ModelItem
\* Characters of a url path.
MaxPath == 5

PathChars == {"/", "a", "b"}

\* The paths of the urls handed to a ModelItem: empty, or starting with "/".
UrlPaths ==
    {<<>>} \cup UNION {{<<"/">> \o t : t \in [1..n -> PathChars]} : n \in 0..(MaxPath - 1)}

\* new URL(item.url).pathname: the path of an http(s) url is never empty.
Pathname(path) == IF path = <<>> THEN <<"/">> ELSE path

\* pathname.endsWith("/")
EndsWithSlash(s) == Len(s) > 0 /\ s[Len(s)] = "/"

\* pathname.slice(0, -1)
SliceLast(s) == SubSeq(s, 1, Len(s) - 1)

\* The position of the last "/" of s, 0 when it has none.
LastSlash(s) ==
    IF \E i \in 1..Len(s) : s[i] = "/"
    THEN CHOOSE i \in 1..Len(s) : s[i] = "/" /\ \A j \in (i + 1)..Len(s) : s[j] # "/"
    ELSE 0

\* pathname.split("/").pop()
SplitPop(s) == SubSeq(s, LastSlash(s) + 1, Len(s))

Untitled == <<"Untitled Model">>

\* The modelName the load effect of ModelItem derives from item.url.
ModelName(path) ==
    LET p0 == Pathname(path)
        pathname == IF EndsWithSlash(p0) THEN SliceLast(p0) ELSE p0
        last == SplitPop(pathname) IN
    IF last = <<>> THEN Untitled ELSE last

\* useState("loading...")
NewItem == [op |-> "new", path |-> <<>>, modelName |-> <<"loading...">>]

registry == <<models, inst, mock, deleteCb, reply, phaseLog, subs, loadCb, named>>

\* window.addEventListener("message", receiveMessage)
AddEventListener(x) == [x EXCEPT !.listening = TRUE]

\* postExtensionMessage({ type: "hello" }) of startup
PostHello(x) ==
    [x EXCEPT !.op = "startup", !.ev = NullEvent, !.posted = Msg(T_hello),
              !.res = [Quiet EXCEPT !.out = <<PostExtensionMessage(Msg(T_hello))>>],
              !.heard = x.listening]

\* startup(): window.addEventListener("message", receiveMessage);
\* postExtensionMessage({ type: "hello" })
Startup ==
    /\ simx' = PostHello(AddEventListener(simx))
    /\ UNCHANGED <<registry, codex>>

\* shutdown(): window.removeEventListener("message", receiveMessage)
Shutdown ==
    /\ simx.listening
    /\ simx' = [simx EXCEPT !.listening = FALSE, !.op = "shutdown", !.ev = NullEvent,
                            !.posted = Undefined, !.res = Quiet]
    /\ UNCHANGED <<registry, codex>>

\* A window that calls receiveMessage whether or not it is installed.
Dispatch_Always(listening, ev) == ReceiveMessage(ev)

\* The window dispatches a message event: receiveMessage is called when it
\* is installed as a listener.
Dispatch(listening, ev) ==
    IF listening THEN ReceiveMessage(ev) ELSE Quiet

\* A message event arrives at the window of the simulator extension.
SimxReceive(ev) ==
    /\ simx' = [simx EXCEPT !.op = IF simx.listening THEN "receive" ELSE "unheard",
                            !.ev = ev, !.posted = Undefined,
                            !.res = Dispatch(simx.listening, ev)]
    /\ UNCHANGED <<registry, codex>>

\* sendPredictions(kind, predictions): the batch is posted as a
\* PredictionMessage.
SimxSendPredictions(kind, predictions) ==
    LET msg == PredictionMessage(KindText(kind), predictions) IN
    /\ simx' = [simx EXCEPT !.op = "post", !.ev = NullEvent, !.posted = msg,
                            !.res = [Quiet EXCEPT !.out = <<PostExtensionMessage(msg)>>]]
    /\ UNCHANGED <<registry, codex>>

HandlerCount == Len(codex.handlers["image"]) + Len(codex.handlers["pose"])
                    + Len(codex.handlers["sound"])

\* registerSimx(), run when the namespace is loaded:
\* control.simmessages.onReceived(SIMX_CHANNEL, handleSimxMessage);
\* postExtensionMessage({ type: "init" })
RegisterSimx ==
    /\ ~codex.registered
    /\ codex' = [codex EXCEPT !.registered = TRUE, !.op = "load", !.buf = <<>>,
                              !.res = [Quiet EXCEPT !.out = <<CodexPost(Msg(T_init))>>]]
    /\ UNCHANGED <<registry, simx>>

\* onImagePrediction / onPosePrediction / onSoundPrediction(handler), called
\* by the program once the namespace is loaded
OnPrediction(kind, h) ==
    /\ codex.registered
    /\ HandlerCount < MaxHandlers
    /\ codex' = [codex EXCEPT !.handlers[kind] = Append(@, h), !.op = "on"]
    /\ UNCHANGED <<registry, simx>>

\* control.simmessages has a buffer of the channel to deliver: to
\* handleSimxMessage, once onReceived has registered it.
CodexReceive(b) ==
    /\ codex' = IF codex.registered
                THEN [codex EXCEPT !.op = "receive", !.buf = b,
                                   !.res = HandleSimxMessage(b, codex.handlers)]
                ELSE [codex EXCEPT !.op = "unheard", !.buf = b, !.res = Quiet]
    /\ UNCHANGED <<registry, simx>>

\* ---- the two endpoints joined by the host
\* Frames sent to begin exchanges, in one run of the two endpoints.
MaxSent == 3

\* The host: the frames on their way to the code extension and to the
\* simulator extension, in the order they were posted, and the number of
\* frames sent so far that answer no other frame.
NoWire == [toCodex |-> <<>>, toSimx |-> <<>>, sent |-> 0]

\* No frame is waiting to be delivered.
Quiescent == wire.toCodex = <<>> /\ wire.toSimx = <<>>

\* An endpoint taken alone: the frames it posts are read where it posted them.
Unwired == UNCHANGED wire

\* window.parent.postMessage: the host takes the frames the simulator
\* extension posted in this step; n of them answer no frame.
SimxPosts(n) ==
    wire' = [wire EXCEPT !.toCodex = @ \o simx'.res.out, !.sent = @ + n]

\* control.simmessages.send: the host takes the frames the code extension
\* sent in this step.
CodexPosts(n) ==
    wire' = [wire EXCEPT !.toSimx = @ \o codex'.res.out, !.sent = @ + n]

\* The message event in which a frame of the code extension reaches the
\* window of the simulator extension.
HostEvent(f) ==
    [null |-> FALSE, type |-> "messagepacket", channel |-> f.channel,
     srcFrameIndex |-> [def |-> TRUE, v |-> 0], data |-> f.data]

\* A frame of the channel sent by another party (the editor, an earlier
\* run of either extension) is on its way to an endpoint.
HostSends(to, f) ==
    /\ wire' = IF to = "codex"
               THEN [wire EXCEPT !.toCodex = Append(@, f), !.sent = @ + 1]
               ELSE [wire EXCEPT !.toSimx = Append(@, f), !.sent = @ + 1]
    /\ UNCHANGED <<registry, simx, codex>>

\* The oldest frame on its way to the code extension is delivered, and the
\* host takes what handleSimxMessage sent.
RelayToCodex ==
    /\ wire.toCodex # <<>>
    /\ CodexReceive(Head(wire.toCodex).data)
    /\ wire' = [wire EXCEPT !.toCodex = Tail(@), !.toSimx = @ \o codex'.res.out]

\* The oldest frame on its way to the simulator extension is delivered to
\* its window, to receiveMessage when the listener is installed, and the
\* host takes what the extension posted.
RelayToSimx ==
    /\ wire.toSimx # <<>>
    /\ SimxReceive(HostEvent(Head(wire.toSimx)))
    /\ wire' = [wire EXCEPT !.toSimx = Tail(@), !.toCodex = @ \o simx'.res.out]

\* The protocol messages either endpoint may be sent.
Protocol == {Msg(T_hello), Msg(T_init), Msg(T_ping), Msg(T_pong)}

\* A batch for the exchange.
OneBatch == <<Prediction(<<"A">>, 667)>>

\* ------------------------------------------------------------ specification
Init ==
    /\ models = <<>>
    /\ inst = [c \in Comps |-> NewInst]
    /\ mock = [k \in Mocks |-> [loaded |-> FALSE, running |-> FALSE, awaited |-> <<>>]]
    /\ deleteCb = FALSE
    /\ reply = Reply("none", "", TRUE, FALSE)
    /\ phaseLog = [c \in Comps |-> "idle"]
    /\ listeners = <<>>
    /\ notes = NoNotes
    /\ loadCb = FALSE
    /\ simx = NewSimx
    /\ codex = NewCodex
    /\ wire = NoWire
    /\ named = NewItem

Facade ==
    \/ \E id \in Ids : StartModel(id)
    \/ \E id \in Ids : StopModel(id)
    \/ StopAllModels
    \/ \E id \in Ids : DeleteModel(id)
    \/ OnModelDeleteRequest

\* One model component under the registry, which starts and stops it.
Next ==
    \/ \E id \in Ids : StartModel(id)
    \/ \E id \in Ids : StopModel(id)
    \/ \E c \in Comps : Mount(c)
    \/ \E c \in Comps : Render(c)
    \/ \E c \in Comps : ParentRender(c)
    \/ \E c \in Comps : CameraUpdate(c)
    \/ \E c \in Comps : LoadOk(c)
    \/ \E c \in Comps : LoadFail(c)
    \/ \E c \in Comps : Unmount(c)
    \/ \E c \in Comps, own \in {"cur", "orphan"}, ok \in BOOLEAN : SetupDone(c, own, ok)
    \/ \E c \in Comps, ok \in BOOLEAN : PlayDone(c, ok)
    \/ \E c \in Comps, which \in {"ref", "orphan"} : Frame(c, which)
    \/ \E c \in Comps, ok \in BOOLEAN : PredictDone(c, ok, <<6667, 3333>>)

Spec == Init /\ [][Next]_vars

\* One image component, started and stopped through the registry, with its
\* loop.
NextStop ==
    \/ \E id \in Ids : StartModel(id)
    \/ \E id \in Ids : StopModel(id)
    \/ \E c \in Comps : Mount(c)
    \/ \E c \in Comps : Render(c)
    \/ \E c \in Comps : LoadOk(c)
    \/ \E c \in Comps, own \in {"cur", "orphan"}, ok \in BOOLEAN : SetupDone(c, own, ok)
    \/ \E c \in Comps, ok \in BOOLEAN : PlayDone(c, ok)
    \/ \E c \in Comps, which \in {"ref", "orphan"} : Frame(c, which)
    \/ \E c \in Comps, ok \in BOOLEAN : PredictDone(c, ok, <<6667, 3333>>)

\* The same, where every awaited promise settles (the device request, the
\* video, the inference), every requested animation frame is run and
\* every render React has scheduled takes place.
FairSpec ==
    /\ Init /\ [][NextStop]_vars
    /\ WF_vars(\E c \in Comps, own \in {"cur", "orphan"}, ok \in BOOLEAN : SetupDone(c, own, ok))
    /\ WF_vars(\E c \in Comps, ok \in BOOLEAN : PlayDone(c, ok))
    /\ WF_vars(\E c \in Comps, which \in {"ref", "orphan"} : Frame(c, which))
    /\ WF_vars(\E c \in Comps, ok \in BOOLEAN : PredictDone(c, ok, <<6667, 3333>>))
    /\ WF_vars(\E c \in Comps : Render(c))

\* The registry over arbitrary implementations of ModelControls.
NextReg ==
    \/ Facade
    \/ \E id \in Ids, k \in Mocks : RegisterModel(id, k)
    \/ \E id \in Ids : UnregisterModel(id)
    \/ \E k \in Mocks : MockLoaded(k)
    \/ \E k \in Mocks : StartModelResumes(k)
    \/ OnModelLoadRequest
    \/ \E url \in Urls : LoadModel(url)

SpecReg == Init /\ [][NextReg]_vars

\* A model component of either kind, through its load, its starts and
\* stops through the registry, and its loop.
NextLoop ==
    \/ \E id \in Ids : StartModel(id)
    \/ \E id \in Ids : StopModel(id)
    \/ \E c \in Comps : Mount(c)
    \/ \E c \in Comps : MountPose(c)
    \/ \E c \in Comps : Render(c)
    \/ \E c \in Comps : LoadOk(c)
    \/ \E c \in Comps, own \in {"cur", "orphan"} : SetupDone(c, own, TRUE)
    \/ \E c \in Comps : PlayDone(c, TRUE)
    \/ \E c \in Comps, which \in {"ref", "orphan"} : Frame(c, which)
    \/ \E c \in Comps, ok \in BOOLEAN, p \in Preds : PredictDone(c, ok, p)

SpecLoop == Init /\ [][NextLoop]_vars

\* A model component and another capability registered side by side.
NextPair ==
    \/ \E id \in Ids : StartModel(id)
    \/ \E id \in Ids : StopModel(id)
    \/ \E c \in Comps : Mount(c)
    \/ \E c \in Comps : Render(c)
    \/ \E c \in Comps : LoadOk(c)
    \/ \E c \in Comps, own \in {"cur", "orphan"}, ok \in BOOLEAN : SetupDone(c, own, ok)
    \/ \E c \in Comps, ok \in BOOLEAN : PlayDone(c, ok)
    \/ RegisterModel("m2", "k1")
    \/ MockLoaded("k1")
    \/ StartModelResumes("k1")

SpecPair == Init /\ [][NextPair]_vars

\* One model component, driven through the registry and directly.
NextDirect ==
    \/ \E id \in Ids : StartModel(id)
    \/ \E c \in Comps : Mount(c)
    \/ \E c \in Comps : Render(c)
    \/ \E c \in Comps : LoadOk(c)
    \/ \E c \in Comps : LoadFail(c)
    \/ \E c \in Comps : Unmount(c)
    \/ \E c \in Comps, own \in {"cur", "orphan"}, ok \in BOOLEAN : SetupDone(c, own, ok)
    \/ \E c \in Comps, ok \in BOOLEAN : PlayDone(c, ok)
    \/ \E c \in Comps : DirectStart(c)
    \/ \E c \in Comps : DirectStop(c)

SpecDirect == Init /\ [][NextDirect]_vars

\* The registry with subscribers, over one implementation of ModelControls:
\* every operation of ModelManager and of the facade.
NextSubs ==
    \/ \E id \in Ids : StartModel(id)
    \/ \E id \in Ids : StopModel(id)
    \/ StopAllModels
    \/ \E id \in Ids : DeleteModel(id)
    \/ \E id \in Ids : RegisterModel(id, "k1")
    \/ \E id \in Ids : UnregisterModel(id)
    \/ MockLoaded("k1")
    \/ StartModelResumes("k1")
    \/ \E url \in Urls : LoadModel(url)
    \/ \E id \in Ids : GetModel(id)
    \/ GetAllModels
    \/ GetModels
    \/ \E message \in Messages : HandleMessage(message)
    \/ \E l \in Listeners : Subscribe(l)
    \/ \E l \in Listeners : Dispose(l)

SpecSubs == Init /\ [][NextSubs]_vars

\* The same with one subscriber, which comes and goes.
NextOps ==
    \/ \E id \in Ids : StartModel(id)
    \/ \E id \in Ids : StopModel(id)
    \/ StopAllModels
    \/ \E id \in Ids : DeleteModel(id)
    \/ \E id \in Ids : RegisterModel(id, "k1")
    \/ \E id \in Ids : UnregisterModel(id)
    \/ MockLoaded("k1")
    \/ StartModelResumes("k1")
    \/ \E url \in Urls : LoadModel(url)
    \/ \E id \in Ids : GetModel(id)
    \/ GetAllModels
    \/ GetModels
    \/ \E message \in Messages : HandleMessage(message)
    \/ Subscribe("l1")
    \/ Dispose("l1")

SpecOps == Init /\ [][NextOps]_vars

\* The model of a ModelItem for the url with this path finished loading:
\* loadModel().then sets the modelName.
ModelItemLoaded(path) ==
    /\ named' = [op |-> "loaded", path |-> path, modelName |-> ModelName(path)]
    /\ UNCHANGED <<models, inst, mock, deleteCb, reply, phaseLog, subs, loadCb, bridge>>

\* ModelItems loading the models of urls.
NextItem == \E path \in UrlPaths : ModelItemLoaded(path)

SpecItem == Init /\ [][NextItem]_vars

\* The two endpoints with the host between them.  Frames are sent to begin
\* exchanges at any time, MaxSent of them in all: the hello of startup,
\* the init of registerSimx, batches of predictions, and protocol frames
\* of other parties.
NextRelay ==
    \/ wire.sent < MaxSent /\ Startup /\ SimxPosts(1)
    \/ Shutdown /\ Unwired
    \/ wire.sent < MaxSent /\ RegisterSimx /\ CodexPosts(1)
    \/ \E kind \in Kinds : OnPrediction(kind, "h1") /\ Unwired
    \/ \E kind \in Kinds :
          wire.sent < MaxSent /\ SimxSendPredictions(kind, OneBatch) /\ SimxPosts(1)
    \/ \E m \in Protocol :
          wire.sent < MaxSent /\ HostSends("simx", CodexPost(m))
    \/ \E m \in Protocol :
          wire.sent < MaxSent /\ HostSends("codex", PostExtensionMessage(m))
    \/ RelayToCodex
    \/ RelayToSimx

SpecRelay == Init /\ [][NextRelay]_vars

\* One model component that is started through the registry and never
\* stopped.
NextStarts ==
    \/ \E id \in Ids : StartModel(id)
    \/ \E c \in Comps : Mount(c) \/ MountPose(c) \/ Render(c) \/ LoadOk(c)
    \/ \E c \in Comps, own \in {"cur", "orphan"}, ok \in BOOLEAN : SetupDone(c, own, ok)
    \/ \E c \in Comps, ok \in BOOLEAN : PlayDone(c, ok)
    \/ \E c \in Comps, which \in {"ref", "orphan"} : Frame(c, which)
    \/ \E c \in Comps, ok \in BOOLEAN, p \in Preds : PredictDone(c, ok, p)

SpecStarts == Init /\ [][NextStarts]_vars

\* The registry with subscribers that store and edit the maps they get.
NextSnap ==
    \/ \E id \in Ids : RegisterModelSeen(id, "k1")
    \/ \E id \in Ids : UnregisterModelSeen(id)
    \/ \E l \in Listeners : Subscribe(l)
    \/ \E l \in Listeners : Dispose(l)

SpecSnap == Init /\ [][NextSnap]_vars

\* The bridge endpoint of the simulator extension.
NextSimx ==
    \/ Startup /\ Unwired
    \/ Shutdown /\ Unwired
    \/ \E ev \in Events : SimxReceive(ev) /\ Unwired
    \/ \E kind \in Kinds, predictions \in Batches :
          SimxSendPredictions(kind, predictions) /\ Unwired

SpecSimx == Init /\ [][NextSimx]_vars

\* The bridge endpoint of the code extension.
NextCodex ==
    \/ RegisterSimx /\ Unwired
    \/ \E kind \in Kinds, h \in Handlers : OnPrediction(kind, h) /\ Unwired
    \/ \E b \in Payloads : CodexReceive(b) /\ Unwired

SpecCodex == Init /\ [][NextCodex]_vars

\* ------------------------------------------------------------------ claims
Entry(id) == models[Lookup(id)].ctl

AllZero(conf) == \A i \in 1..Len(conf) : conf[i].confidence = 0

\* C1 (as stated): after two consecutive startModel(id) calls on a loaded
\* model, isRunning() is true and exactly one start-or-loop is active.
C1_TwoStartsOneLoop ==
    \A c \in Comps :
        phaseLog[c] = "start2" =>
            inst[c].runningRef /\ Starts(inst[c]) + Loops(inst[c]) = 1

\* C1 (amended): a startModel(id) call on a registered, loaded model leaves
\* isRunning() true when it returns or suspends; when isRunning() was already
\* true it resolves true, invokes no controls.start() and changes nothing of
\* the instance, so it adds no start and no loop.
C1_StartIdempotent ==
    [][\A id \in Ids :
          (StartModel(id) /\ Lookup(id) # 0 /\ IsLoaded(Entry(id))
                          /\ Entry(id) \in Comps)
          => /\ inst'[Entry(id)].runningRef
             /\ IsRunning(Entry(id))
                  => /\ reply'.done /\ reply'.ret /\ reply'.starts = <<>>
                     /\ inst' = inst]_vars

\* The second of two consecutive calls has returned true without a start.
C1_Witness ==
    \E c \in Comps :
        /\ phaseLog[c] = "start2"
        /\ reply.op = "startModel" /\ reply.done /\ reply.ret
        /\ reply.starts = <<>>
        /\ inst[c].runningRef
        /\ Starts(inst[c]) + Loops(inst[c]) = 1

\* C2: startModel(id) on an absent id or an entry that is not loaded
\* resolves false, invokes no controls.start(), and changes neither the map
\* nor any capability.
C2_StartRefused ==
    [][\A id \in Ids :
          (StartModel(id) /\ (Lookup(id) = 0 \/ ~IsLoaded(Entry(id))))
          => /\ reply'.done /\ ~reply'.ret /\ reply'.starts = <<>>
             /\ UNCHANGED <<models, inst, mock>>]_vars

\* startModel was refused for a registered entry that is not loaded.
C2_Witness ==
    /\ reply.op = "startModel" /\ reply.done /\ ~reply.ret
    /\ Lookup(reply.id) # 0
    /\ ~IsLoaded(Entry(reply.id))

\* C3: when capture-device acquisition fails during start, startModel(id)
\* resolves false and the instance is not running.
C3_DeviceFailureSurfaced ==
    (reply.op = "startModel" /\ reply.done /\ reply.outcome = "deviceFailed")
        => /\ ~reply.ret
           /\ \A c \in Comps : ItemId(c) = reply.id => ~inst[c].runningRef

\* C4: after stop(), every confidence of the instance is 0 until the next
\* start.
C4_StoppedConfidencesZero ==
    \A c \in Comps : phaseLog[c] = "stopped" => AllZero(inst[c].labelsRef)

\* C5: the zeroed batch stop() emits is the last batch emitted until the
\* next start.
C5_StopBatchIsLast ==
    \A c \in Comps :
        phaseLog[c] = "stopped" =>
            /\ inst[c].lastBatch.src = "stop"
            /\ AllZero(inst[c].lastBatch.conf)

\* C6: at most one scheduled-or-executing loop iteration per instance.
C6_AtMostOneLoop == \A c \in Comps : Loops(inst[c]) <= 1

\* C7: an instance that is not running and has no start in progress holds
\* no capture device.
C7_NoDeviceWhenIdle ==
    \A c \in Comps :
        (~inst[c].runningRef /\ Starts(inst[c]) = 0) => Held(inst[c]) = 0

\* C8: after deleteModel(id) returns for a registered id, the model is not
\* running and id is absent from the map.
C8_DeletedIsAbsent ==
    [][\A id \in Ids :
          (DeleteModel(id) /\ Lookup(id) # 0 /\ ~reply'.raised)
          => /\ id \notin {models'[i].id : i \in 1..Len(models')}
             /\ ~IsRunning(Entry(id))']_vars

SeqSet(q) == {q[j] : j \in 1..Len(q)}

\* C9: stopAllModels() invokes stop() on every entry that is running when
\* its turn comes, also after a stop() that threw; afterwards every entry
\* whose stop() did not throw is not running; nothing is raised.
C9_StopAllIsolates ==
    [][StopAllModels
          => /\ reply'.done /\ ~reply'.raised
             /\ \A i \in 1..Len(models) :
                   /\ IsRunning(models[i].ctl) => models[i].ctl \in SeqSet(reply'.stops)
                   /\ models[i].ctl \notin reply'.threw => ~IsRunning(models[i].ctl)']_vars

\* A stopAllModels() in which the first stop() threw and a later entry was
\* stopped all the same.
C9_Witness ==
    /\ reply.op = "stopAllModels"
    /\ Len(reply.stops) >= 2
    /\ reply.stops[1] \in reply.threw
    /\ reply.stops[2] \notin reply.threw
    /\ ~IsRunning(reply.stops[2])

\* C10: stopModel(id) returns false for an absent id; true without calling
\* stop() for an entry that is not running; otherwise it calls stop() once
\* and returns true, or false when stop() throws; it never raises.
C10_StopModelResult ==
    [][\A id \in Ids :
          StopModel(id)
          => /\ reply'.done /\ ~reply'.raised
             /\ Lookup(id) = 0 => (~reply'.ret /\ reply'.stops = <<>>)
             /\ (Lookup(id) # 0 /\ ~IsRunning(Entry(id)))
                   => (reply'.ret /\ reply'.stops = <<>> /\ mock' = mock /\ inst' = inst)
             /\ (Lookup(id) # 0 /\ IsRunning(Entry(id)))
                   => /\ reply'.stops = <<Entry(id)>>
                      /\ reply'.ret = (reply'.threw = {})]_vars

\* stopModel(id) returned false because stop() threw.
C10_Witness ==
    /\ reply.op = "stopModel" /\ reply.done
    /\ ~reply.ret /\ ~reply.raised
    /\ reply.threw # {}
    /\ reply.stops = <<Entry(reply.id)>>

\* C11: no facade operation raises to its caller; in particular a
\* controls.stop() that throws during deleteModel does not propagate.
C11_FacadeNeverRaises == ~reply.raised

\* ---- the bridge
Payload(msg) == Utf8Encode(Stringify(msg))

\* The last event of the simulator extension was a frame: a message event
\* with a data object.
FrameSeen == simx.op = "receive" /\ ~simx.ev.null

\* The frame carried msg on the fixed channel from the primary simulator.
Carried(msg) ==
    /\ FrameSeen
    /\ simx.ev.type = "messagepacket"
    /\ simx.ev.channel = SIMX_CHANNEL
    /\ simx.ev.srcFrameIndex = [def |-> TRUE, v |-> 0]
    /\ simx.ev.data = Payload(msg)

Untouched(res) == ~res.decoded /\ res.dispatched = <<>> /\ res.out = <<>>

\* The frames posted are exactly one, carrying msg on the fixed channel.
PostedOnly(out, msg) ==
    /\ Len(out) = 1
    /\ out[1].channel = SIMX_CHANNEL
    /\ JsonParse(Utf8Decode(out[1].data)).ok
    /\ JsonParse(Utf8Decode(out[1].data)).v = msg

\* C12: a frame whose channel is not the fixed channel id causes no payload
\* decode, no call of receiveExtensionMessage and no outbound frame.
C12_OtherChannelDropped ==
    (FrameSeen /\ simx.ev.channel # SIMX_CHANNEL) => Untouched(simx.res)

\* A ping from the primary simulator on another channel was dropped.
C12_Witness ==
    /\ FrameSeen
    /\ simx.ev.type = "messagepacket"
    /\ simx.ev.channel = "other/channel"
    /\ simx.ev.srcFrameIndex = [def |-> TRUE, v |-> 0]
    /\ simx.ev.data = Payload(Msg(T_ping))
    /\ Untouched(simx.res)

\* C13: a frame whose srcFrameIndex is not 0, or is absent, is dispatched to
\* no handler and causes no outbound frame, also on the fixed channel.
C13_OtherFrameDropped ==
    (FrameSeen /\ simx.ev.srcFrameIndex # [def |-> TRUE, v |-> 0])
        => Untouched(simx.res)

\* A ping on the fixed channel without srcFrameIndex was dropped.
C13_Witness ==
    /\ FrameSeen
    /\ simx.ev.type = "messagepacket"
    /\ simx.ev.channel = SIMX_CHANNEL
    /\ ~simx.ev.srcFrameIndex.def
    /\ simx.ev.data = Payload(Msg(T_ping))
    /\ Untouched(simx.res)

\* C14: a ping on the fixed channel from srcFrameIndex 0 triggers exactly
\* one outbound frame, a pong on the same channel.
C14_PingPong == Carried(Msg(T_ping)) => PostedOnly(simx.res.out, Msg(T_pong))

\* A ping was received and answered.
C14_Witness ==
    /\ Carried(Msg(T_ping))
    /\ simx.res.dispatched = <<Msg(T_ping)>>
    /\ Len(simx.res.out) = 1

\* C15: an endpoint that receives hello replies with exactly one init, and
\* one that receives init or pong posts nothing; for both endpoints.
C15_Handshake ==
    /\ Carried(Msg(T_hello)) => PostedOnly(simx.res.out, Msg(T_init))
    /\ (Carried(Msg(T_init)) \/ Carried(Msg(T_pong))) => simx.res.out = <<>>
    /\ (codex.op = "receive" /\ codex.buf = Payload(Msg(T_hello)))
          => PostedOnly(codex.res.out, Msg(T_init))
    /\ (codex.op = "receive" /\ codex.buf \in {Payload(Msg(T_init)), Payload(Msg(T_pong))})
          => codex.res.out = <<>>

\* C16: no exception leaves the message handler of an endpoint.
C16_MalformedDropped == ~simx.res.escaped /\ ~codex.res.escaped

\* C17: a predictions message of kind k calls the handlers registered for k,
\* and no others, once per prediction, in batch order, with the label and
\* the confidence; a message of another modelType calls no handler.
C17_FanOut ==
    LET r == JsonParse(Utf8Decode(codex.buf))
        ps == Get(r.v, K_predictions).v
        modelType == Get(r.v, K_modelType)
        calls == codex.res.calls IN
    (/\ codex.op = "receive"
     /\ r.ok
     /\ r.v.t = "obj"
     /\ IsStr(Get(r.v, K_type), T_predictions)
     /\ Get(r.v, K_predictions).t = "arr"
     /\ \A i \in 1..Len(ps) : ps[i].t = "obj")
        => /\ (\A k \in Kinds : ~IsStr(modelType, KindText(k))) => calls = <<>>
           /\ \A k \in Kinds :
                 IsStr(modelType, KindText(k)) =>
                    LET hs == codex.handlers[k] IN
                    /\ Len(calls) = Len(ps) * Len(hs)
                    /\ \A i \in 1..Len(ps), x \in 1..Len(hs) :
                          calls[(i - 1) * Len(hs) + x]
                              = [h |-> hs[x], name |-> Get(ps[i], K_name),
                                 confidence |-> Get(ps[i], K_confidence)]

\* Two image handlers were called for the two predictions of an image batch.
C17_Witness ==
    /\ codex.op = "receive"
    /\ Len(codex.handlers["image"]) = 2
    /\ codex.buf = Payload(PredictionMessage(T_image,
                       <<Prediction(<<"A">>, 667), Prediction(<<"\"", "é", "\\">>, 50)>>))
    /\ Len(codex.res.calls) = 4
    /\ codex.res.calls[3].name = Str(<<"\"", "é", "\\">>)
    /\ codex.res.calls[3].confidence = Num(50)

\* C18: decoding the bytes that encode a PredictionBatch gives the batch:
\* the same kind, labels, order and confidences.
C18_RoundTrip ==
    simx.op = "post" =>
        LET r == JsonParse(Utf8Decode(simx.res.out[1].data)) IN
        r.ok /\ r.v = simx.posted

\* A batch of two predictions, one with a quoted label, was posted and
\* decodes to itself.
C18_Witness ==
    /\ simx.op = "post"
    /\ Len(Get(simx.posted, K_predictions).v) = 2
    /\ Get(Get(simx.posted, K_predictions).v[2], K_name) = Str(<<"\"", "é", "\\">>)
    /\ JsonParse(Utf8Decode(simx.res.out[1].data)).v = simx.posted

\* What notifyListeners has to do for a change of the map: every subscribed
\* listener is called once, in subscription order, with the map as it is
\* after the change, and nothing is raised.
AllNotified ==
    /\ ~notes'.raised
    /\ notes'.log = [i \in 1..Len(listeners) |-> [l |-> listeners[i], snap |-> models']]

\* C19: registerModel and unregisterModel call every subscribed listener
\* exactly once with the map as it is after the change, in subscription
\* order, also when a listener fails; a disposed listener is not called.
C19_ListenersNotified ==
    [][(\E id \in Ids : RegisterModel(id, "k1") \/ UnregisterModel(id))
          => /\ AllNotified
             /\ \A i \in 1..Len(notes'.log) :
                   \E j \in 1..Len(listeners) : listeners[j] = notes'.log[i].l]_vars

\* The steps of the operations that are not registerModel or unregisterModel.
OtherOperation ==
    \/ \E id \in Ids : StartModel(id) \/ StopModel(id) \/ DeleteModel(id) \/ GetModel(id)
    \/ \E k \in Mocks : StartModelResumes(k)
    \/ StopAllModels
    \/ \E url \in Urls : LoadModel(url)
    \/ GetAllModels
    \/ GetModels
    \/ \E message \in Messages : HandleMessage(message)

\* C20: only registerModel and unregisterModel change the map of models or
\* call the change listeners; startModel, stopModel, stopAllModels,
\* deleteModel, loadModel, getModel, getAllModels and handleMessage do not.
C20_OnlyRegistrationMutates ==
    [][/\ OtherOperation => UNCHANGED <<models, listeners, notes>>
       /\ (models' # models \/ notes' # notes)
             => \E id \in Ids : RegisterModel(id, "k1") \/ UnregisterModel(id)]_vars

\* deleteModel returned true for m1 with a listener subscribed: m1 is still
\* in the map and the listener was not called.
C20_Witness ==
    /\ reply.op = "deleteModel"
    /\ reply.id = "m1"
    /\ reply.ret
    /\ Lookup("m1") # 0
    /\ listeners = <<"l1">>
    /\ notes.log = <<>>

\* C21: running implies loaded: isRunning() is never true while isLoaded()
\* is false, whether the instance is started through the registry or by
\* its own start().
C21_RunningImpliesLoaded ==
    \A c \in Comps : IsRunning(c) => IsLoaded(c)

\* The operation a message of each type stands for, and its result.
Routed(m) ==
    CASE m.type = "load-model" ->
            /\ LoadModel(m.url)
            /\ reply'.op = "loadModel" /\ reply'.id = m.url
      [] m.type = "start-model" ->
            /\ StartModel(m.modelId)
            /\ reply'.op = "startModel" /\ reply'.id = m.modelId
      [] m.type = "stop-model" ->
            /\ StopModel(m.modelId)
            /\ reply'.op = "stopModel" /\ reply'.id = m.modelId
      [] m.type = "delete-model" ->
            /\ DeleteModel(m.modelId)
            /\ reply'.op = "deleteModel" /\ reply'.id = m.modelId
      [] m.type = "stop-all-models" ->
            /\ StopAllModels
            /\ reply'.op = "stopAllModels" /\ reply'.ret
      [] OTHER ->
            /\ reply'.done /\ ~reply'.ret /\ ~reply'.raised
            /\ reply'.starts = <<>> /\ reply'.stops = <<>> /\ ~reply'.intent
            /\ UNCHANGED <<models, inst, mock, deleteCb, phaseLog, subs, loadCb, bridge, named>>

\* C22: handleMessage / sendMessage does what the operation named by the
\* type of the message does and returns its result; stop-all-models
\* returns true; a message of another type returns false and changes
\* nothing.
C22_MessageRouted ==
    [][\A m \in Messages : HandleMessage(m) => Routed(m)]_vars

\* A message of no known type was answered false with a model registered.
C22_Witness ==
    /\ reply.op = "handleMessage"
    /\ ~reply.ret
    /\ Lookup("m1") # 0

\* C23: loadModel(url) resolves true only when the load request was taken
\* up by an installed load-request handler; with no handler installed it
\* does not resolve true.
C23_LoadResultMeansLoaded ==
    (reply.op = "loadModel" /\ reply.done /\ reply.ret) => reply.intent

\* What the capability x answers now.
Answers(x) ==
    IF x \in Comps
    THEN [isLoaded |-> inst[x].model, isRunning |-> inst[x].runningRef]
    ELSE [isLoaded |-> mock[x].loaded, isRunning |-> mock[x].running]

Current(entries) ==
    [i \in 1..Len(entries) |->
        [id |-> entries[i].id,
         isLoaded |-> Answers(entries[i].ctl).isLoaded,
         isRunning |-> Answers(entries[i].ctl).isRunning]]

\* C24: the isLoaded and isRunning that getModels() returns, and that an
\* onModelsChange callback is given, are what the capability of each entry
\* answers at that moment.
C24_StatusFromCapability ==
    [][/\ GetModels => reply'.list = Current(models)
       /\ (\E id \in Ids : RegisterModel(id, "k1") \/ UnregisterModel(id))
             => \A i \in 1..Len(notes'.log) :
                   ModelsChangeInfo(notes'.log[i].snap) = Current(models')]_vars

\* getModels() reported a running, loaded model, and a listener was given
\* a snapshot holding it.
C24_Witness ==
    /\ reply.op = "getModels"
    /\ Len(reply.list) >= 1
    /\ reply.list[1].isRunning /\ reply.list[1].isLoaded
    /\ reply.list = Current(models)
    /\ Len(notes.log) >= 1
    /\ Len(notes.log[1].snap) >= 1

\* The segments of a path: the maximal runs of characters other than "/".
NonEmptySegmentEnds(s) == {i \in 1..Len(s) : s[i] # "/" /\ (i = Len(s) \/ s[i + 1] = "/")}

Max(S) == CHOOSE x \in S : \A y \in S : y <= x

\* The last non-empty segment of a path that has one.
LastNonEmptySegment(s) ==
    LET e == Max(NonEmptySegmentEnds(s))
        b == IF \E i \in 1..e : s[i] = "/"
             THEN Max({i \in 1..e : s[i] = "/"}) + 1
             ELSE 1 IN
    SubSeq(s, b, e)

\* C25: the id derived from a url is the last non-empty segment of its
\* path, also when the path ends in more than one slash.
C25_IdIsLastSegment ==
    (named.op = "loaded" /\ NonEmptySegmentEnds(named.path) # {})
        => named.modelName = LastNonEmptySegment(named.path)

\* C26: startModel(id) and stopModel(id) change the instance registered
\* under id only: the flags, device, confidences and batches of every other
\* instance stay as they are, and two instances can run at the same time.
C26_InstancesIndependent ==
    [][\A id \in Ids :
          (StartModel(id) \/ StopModel(id))
          => /\ \A c \in Comps : (Lookup(id) = 0 \/ Entry(id) # c) => inst'[c] = inst[c]
             /\ \A k \in Mocks : (Lookup(id) = 0 \/ Entry(id) # k) => mock'[k] = mock[k]]_vars

\* startModel started the other capability while the component's loop was
\* scheduled: both instances are running at once.
C26_Witness ==
    /\ reply.op = "startModel" /\ reply.id = "m2" /\ reply.starts = <<"k1">>
    /\ Lookup("m1") # 0 /\ Lookup("m2") # 0
    /\ inst["c1"].runningRef /\ inst["c1"].afr = "pending"
    /\ mock["k1"].running

\* stop() was the last call made on component c: no start() came after it.
Stopped(c) == phaseLog[c] = "stopped"

\* C27: after stop() with no later start(), the inference in flight is not
\* aborted, no new inference is begun, a loop run that sees the flag
\* schedules nothing, and the loop ends.
C27_CooperativeStop ==
    /\ [][\A c \in Comps :
            Stopped(c)' =>
               /\ inst'[c].inflight <= inst[c].inflight
               /\ inst'[c].inflight < inst[c].inflight
                     => \E ok \in BOOLEAN, p \in Preds : PredictDone(c, ok, p)
               /\ (Stopped(c) /\ \E which \in {"ref", "orphan"} : Frame(c, which))
                     => Loops(inst'[c]) = Loops(inst[c]) - 1]_vars
    /\ \A c \in Comps :
          Stopped(c) ~> (~Stopped(c) \/ Starts(inst[c]) + Loops(inst[c]) = 0)

\* stop() was called while an inference was in flight.
C27_Witness ==
    /\ Stopped("c1")
    /\ inst["c1"].inflight = 1
    /\ ~inst["c1"].runningRef
    /\ inst["c1"].lastBatch.src = "stop"

\* C28: when the inference of a tick throws while the instance is running,
\* the held confidences stay as they are and the next iteration is
\* scheduled: the loop goes on.
C28_FailedTickGoesOn ==
    [][\A c \in Comps, p \in Preds :
          (inst[c].runningRef /\ PredictDone(c, FALSE, p))
          => /\ inst'[c].labelsRef = inst[c].labelsRef
             /\ inst'[c].afr = "pending"
             /\ Loops(inst'[c]) = Loops(inst[c])
             /\ inst'[c].runningRef]_vars

\* A tick of a running pose model failed: the confidences of the tick
\* before are still held and the next iteration is scheduled.
C28_Witness ==
    /\ inst["c1"].kind = "pose"
    /\ inst["c1"].runningRef
    /\ inst["c1"].lastBatch.src = "failed"
    /\ ~AllZero(inst["c1"].labelsRef)
    /\ inst["c1"].lastBatch.conf = inst["c1"].labelsRef
    /\ inst["c1"].afr = "pending"

Names(labels) == [i \in 1..Len(labels) |-> labels[i].name]

\* The confidence at index i is that of the i-th result, 0 when there is
\* none.
FromResult(labels, p) ==
    \A i \in 1..Len(LabelNames) :
        labels[i].confidence = IF i <= Len(p) THEN Round3(p[i]) ELSE 0

\* C29: the labels set at load time stay as they are, in their order,
\* through every tick and stop; a tick sets the confidence at index i from
\* the i-th result, 0 when there is none (at once, or at the next render
\* when its update waits behind another); every batch sent lists the
\* labels in load-time order.
C29_LabelsKeepOrder ==
    /\ [](\A c \in Comps :
            /\ inst[c].model => Names(inst[c].labelsRef) = LabelNames
            /\ inst[c].lastBatch.src # "none"
                  => Names(inst[c].lastBatch.conf) = LabelNames)
    /\ [][\A c \in Comps, p \in Preds :
            /\ (PredictDone(c, TRUE, p) /\ NoLanes(inst[c]))
                  => FromResult(inst'[c].labelsRef, p)
            /\ (PredictDone(c, TRUE, p) /\ ~NoLanes(inst[c])
                                       /\ inst[c].phase = "mounted")
                  => /\ inst'[c].labelsRef = inst[c].labelsRef
                     /\ inst'[c].queue[Len(inst'[c].queue)] = [u |-> "update", p |-> p]
            /\ (Render(c) /\ inst[c].queue # <<>>
                          /\ inst[c].queue[Len(inst[c].queue)] = [u |-> "update", p |-> p])
                  => FromResult(inst'[c].labelsRef, p)]_vars

\* A tick whose result had one element only: the second label is still
\* there, at confidence 0, and the batch lists both labels.
C29_Witness ==
    /\ inst["c1"].lastBatch.src = "updated"
    /\ inst["c1"].labelsRef = <<[name |-> "A", confidence |-> 333],
                                [name |-> "B", confidence |-> 0]>>
    /\ inst["c1"].lastBatch.conf = inst["c1"].labelsRef

\* C30: an iteration of the loop of a running instance begins at most one
\* inference and sends one batch, of the kind of the instance and holding
\* its confidences, once the inference of the iteration has ended; a run
\* that finds the instance not running does neither.
C30_OneBatchPerIteration ==
    [][\A c \in Comps :
          /\ (\E which \in {"ref", "orphan"} : Frame(c, which))
                => /\ inst'[c].inflight \in {inst[c].inflight, inst[c].inflight + 1}
                   /\ inst'[c].inflight = inst[c].inflight + 1
                         => (inst[c].runningRef /\ inst'[c].lastBatch = inst[c].lastBatch)
                   /\ (inst[c].runningRef /\ inst'[c].inflight = inst[c].inflight)
                         => inst'[c].lastBatch = [src |-> "skipped", kind |-> inst[c].kind,
                                                  conf |-> inst[c].labelsRef]
                   /\ ~inst[c].runningRef
                         => (inst'[c].inflight = inst[c].inflight
                               /\ inst'[c].lastBatch = inst[c].lastBatch
                               /\ Loops(inst'[c]) = Loops(inst[c]) - 1)
          /\ (\E ok \in BOOLEAN, p \in Preds : PredictDone(c, ok, p))
                => /\ inst'[c].inflight = inst[c].inflight - 1
                   /\ inst'[c].lastBatch.src \in {"updated", "failed"}
                   /\ inst'[c].lastBatch.kind = inst[c].kind
                   /\ inst'[c].lastBatch.conf = inst'[c].labelsRef
                   /\ Loops(inst'[c]) = Loops(inst[c])]_vars

\* The loop of a running pose model sent a batch of kind pose after its
\* inference, and the next iteration is scheduled.
C30_Witness ==
    /\ inst["c1"].kind = "pose"
    /\ inst["c1"].runningRef
    /\ inst["c1"].lastBatch.src = "updated"
    /\ inst["c1"].lastBatch.kind = "pose"
    /\ inst["c1"].inflight = 0
    /\ inst["c1"].afr = "pending"

\* C31: a frame that fails the srcFrameIndex filter or the channel filter
\* is never decoded or parsed, so its payload, undecodable or not, causes
\* no failure.
C31_FilteredBeforeDecode ==
    (/\ FrameSeen
     /\ simx.ev.type = "messagepacket"
     /\ (simx.ev.srcFrameIndex # [def |-> TRUE, v |-> 0] \/ simx.ev.channel # SIMX_CHANNEL))
        => (~simx.res.decoded /\ ~simx.res.escaped)

\* A frame of another simulator extension on the fixed channel, whose
\* payload is not JSON, was dropped without being decoded.
C31_Witness ==
    /\ FrameSeen
    /\ simx.ev.type = "messagepacket"
    /\ simx.ev.channel = SIMX_CHANNEL
    /\ simx.ev.srcFrameIndex = [def |-> TRUE, v |-> 1]
    /\ simx.ev.data = <<"{">>
    /\ ~simx.res.decoded /\ ~simx.res.escaped

\* C32: after a load has failed and until one succeeds, isLoaded() is
\* false, a new load attempt is pending once the mounted component has
\* rendered its queued updates, and the instance is not running.
C32_FailedLoadStaysUnloaded ==
    \A c \in Comps :
        inst[c].failed =>
            /\ ~IsLoaded(c)
            /\ (inst[c].phase = "mounted" /\ ~UpdateQueued(inst[c])) => inst[c].loading
            /\ ~IsRunning(c)

\* The entries of ms under id.
EntriesFor(ms, id) == {i \in 1..Len(ms) : ms[i].id = id}

\* C33: registerModel(item, controls) leaves exactly one entry for item.id,
\* holding the controls just registered, and every other entry as it was;
\* unregisterModel(id) of an id that is not registered leaves the map as it
\* was and raises no error.
C33_RegistrationKeepsMap ==
    [][\A id \in Ids :
          /\ \A k \in Mocks :
                RegisterModel(id, k) =>
                    /\ Cardinality(EntriesFor(models', id)) = 1
                    /\ \A i \in EntriesFor(models', id) : models'[i].ctl = k
                    /\ SelectSeq(models', LAMBDA e : e.id # id)
                          = SelectSeq(models, LAMBDA e : e.id # id)
          /\ (UnregisterModel(id) /\ id \notin Registered) =>
                    /\ models' = models
                    /\ ~notes'.raised]_vars

\* The map listener l stored, as it reads after the step.
HeldMapAfter(l) == IF notes'.held[l].own THEN notes'.held[l].val ELSE models'

\* C34: the maps handed to subscribers are isolated: a listener that adds
\* or deletes keys of the map it is given changes neither the registry's
\* map nor the map another listener is given, and a later registerModel or
\* unregisterModel does not change a map delivered earlier.  (A step that
\* leaves the set of listeners alone is a registerModel or unregisterModel.)
C34_SnapshotsIsolated ==
    [][listeners' = listeners =>
          /\ \E id \in Ids : \/ models' = MapSet(models, id, "k1")
                             \/ models' = MapDelete(models, id)
          /\ \A i \in 1..Len(notes'.log) : notes'.log[i].snap = models'
          /\ \A l \in Listeners :
                (notes.held[l].has /\ notes'.held[l] = notes.held[l])
                    => HeldMapAfter(l) = HeldMap(l)]_vars

\* Both listeners were called for the registration of m2: l1 deleted the
\* keys of its map and l2 added one to its own, the registry holds m1 and
\* m2.
C34_Witness ==
    /\ notes.op = "registerModel"
    /\ Len(notes.log) = 2
    /\ Registered = {"m1", "m2"}
    /\ notes.held["l1"].has /\ notes.held["l1"].val = <<>>
    /\ notes.held["l2"].has /\ Len(notes.held["l2"].val) = 3
    /\ \A i \in 1..2 : notes.log[i].snap = models

\* C35: deleteModel(id) of an id that is not registered returns false,
\* stops nothing and signals no delete request; of a registered id it stops
\* the model if it is running, then calls the delete-request callback with
\* the id and returns true, and it calls no change listener.
C35_DeleteSignalsIntent ==
    [][\A id \in Ids :
          DeleteModel(id) =>
              /\ reply'.id = id
              /\ UNCHANGED <<models, subs>>
              /\ IF id \notin Registered
                 THEN ~reply'.ret /\ reply'.stops = <<>> /\ ~reply'.intent
                 ELSE /\ reply'.ret /\ ~reply'.raised
                      /\ reply'.stops = IF IsRunning(Entry(id)) THEN <<Entry(id)>> ELSE <<>>
                      /\ reply'.intent = deleteCb]_vars

\* No start of the instance was made over the webcam of an earlier one.
OneWebcam(r) == r.orphanSetup = 0 /\ r.leaked = 0

C37_StopDuringSetup ==
    [][\A c \in Comps, ok \in BOOLEAN :
          (/\ SetupDone(c, "orphan", ok)
           /\ phaseLog[c] = "stopped" \/ inst[c].phase = "gone"
           /\ Starts(inst[c]) = 1 /\ Loops(inst[c]) = 0)
          => /\ ~inst'[c].runningRef
             /\ Starts(inst'[c]) = 0 /\ Loops(inst'[c]) = 0
             /\ inst'[c].lastBatch = inst[c].lastBatch
             /\ inst'[c].labelsRef = inst[c].labelsRef
             /\ reply'.outcome \in {"aborted", "deviceFailed"}]_vars

\* stopModel came while the start was in setup, and the setup has ended
\* since with a device: the start was given up, the instance is not
\* running, nothing is scheduled, and the last batch is the batch of the
\* stop, here with every confidence 0.
C37_Witness ==
    \E c \in Comps :
        /\ phaseLog[c] = "stopped"
        /\ reply.op = "startModel" /\ reply.done /\ reply.outcome = "aborted"
        /\ ~inst[c].runningRef
        /\ Starts(inst[c]) = 0 /\ Loops(inst[c]) = 0
        /\ inst[c].leaked = 1 /\ inst[c].webcamRef = "none"
        /\ inst[c].lastBatch.src = "stop"
        /\ Len(inst[c].lastBatch.conf) > 0 /\ AllZero(inst[c].lastBatch.conf)

\* The endpoint's last inbound message was a hello, or an init or a pong.
Informing == {Payload(Msg(T_init)), Payload(Msg(T_pong))}
CodexGotHello == codex.op = "receive" /\ codex.buf = Payload(Msg(T_hello))
SimxInformed == simx.op = "receive" /\ simx.ev.data \in Informing
CodexInformed == codex.op = "receive" /\ codex.buf \in Informing

\* A frame on its way has been delivered in the step.
Delivered ==
    \/ wire.toCodex # <<>> /\ wire'.toCodex = Tail(wire.toCodex)
    \/ wire.toSimx # <<>> /\ wire'.toSimx = Tail(wire.toSimx)

\* The deliveries a waiting frame can still cause: its own, and that of the
\* answer when it is a hello or a ping.
Asking == {Payload(Msg(T_hello)), Payload(Msg(T_ping))}
Weight(f) == IF f.data \in Asking THEN 2 ELSE 1

RECURSIVE Deliveries(_)
Deliveries(out) == IF out = <<>> THEN 0 ELSE Weight(Head(out)) + Deliveries(Tail(out))

Pending == Deliveries(wire.toCodex) + Deliveries(wire.toSimx)

\* C38: the bridge protocol quiesces: a frame delivered to an endpoint makes
\* it post at most one frame, and init and pong make neither endpoint post
\* any; so, however many frames are on their way at once, every delivery
\* lowers the number of deliveries the frames on their way can still
\* cause, and only a frame sent to begin an exchange raises it: when
\* finitely many of those are sent the exchange ends with no frame waiting.
C38_BridgeQuiesces ==
    /\ [](/\ simx.op \in {"receive", "unheard"} => Len(simx.res.out) <= 1
          /\ codex.op \in {"receive", "unheard"} => Len(codex.res.out) <= 1
          /\ SimxInformed => simx.res.out = <<>>
          /\ CodexInformed => codex.res.out = <<>>)
    /\ [][/\ Delivered => Pending' < Pending
          /\ wire'.sent = wire.sent => Pending' <= Pending]_vars

\* The hello of startup reached the code extension while the init of
\* registerSimx was still on its way: the init that answers the hello
\* waits behind it, two frames are to be delivered to the simulator
\* extension, and none to the code extension.
C38_Witness ==
    /\ simx.listening /\ codex.registered
    /\ CodexGotHello
    /\ PostedOnly(codex.res.out, Msg(T_init))
    /\ wire.toSimx = <<CodexPost(Msg(T_init)), CodexPost(Msg(T_init))>>
    /\ wire.toCodex = <<>>

\* C39: registerModel never replaces an entry whose controls report
\* isRunning() true with other controls, so every running capability
\* registered under a registered id is the one stopAllModels reaches.
C39_RunningEntryKept ==
    [][\A id \in Ids, k \in Mocks :
          (RegisterModel(id, k) /\ id \in Registered /\ IsRunning(Entry(id)))
              => k = Entry(id)]_vars

\* C40: startup() installs the message listener before it posts hello, and
\* posts exactly one hello; once shutdown() has removed the listener, and
\* until the next startup(), no message event, not even one that passes
\* both filters, makes the extension call a handler or post a frame.
C40_ListenerLifecycle ==
    /\ [](simx.op = "startup" =>
             /\ simx.listening /\ simx.heard
             /\ PostedOnly(simx.res.out, Msg(T_hello)))
    /\ [](simx.op = "shutdown" => ~simx.listening)
    /\ [][(~simx.listening /\ simx'.op \in {"receive", "unheard"})
             => (simx'.op = "unheard" /\ simx'.res = Quiet /\ ~simx'.listening)]_vars

\* After startup and shutdown a ping of the code extension arrived on the
\* fixed channel from the primary simulator: nothing was decoded, no pong
\* was posted.
C40_Witness ==
    /\ simx.heard /\ ~simx.listening
    /\ simx.op = "unheard"
    /\ simx.ev = HostEvent(PostExtensionMessage(Msg(T_ping)))
    /\ simx.res = Quiet

====
